---- MODULE Spec2Model ----
(***************************************************************************)
(* Notification reporters of a Playwright test run:                        *)
(*   DiscordReporter   (src/helpers/DiscordReporter.ts)                    *)
(*   TelegramReporter  (src/unnamed/part_002)                              *)
(*   DiscordNotificationService (src/unnamed/part_001)                     *)
(*                                                                         *)
(* A JavaScript string is modelled as the sequence of its UTF-16 code      *)
(* units, one TLA+ string per code unit ("a", "\n", "U+F8FF"), so that     *)
(* length, substring, trim and concatenation are the sequence operations.  *)
(* Credentials (webhook URL, bot token, chat id) are never inspected       *)
(* character by character and are kept as TLA+ strings; "" is the empty,   *)
(* falsy, string.                                                          *)
(***************************************************************************)
EXTENDS Integers, Sequences, FiniteSets, TLC

----------------------------------------------------------------------------
(* String literals of the source, code unit by code unit.  The reporters'  *)
(* source files hold the decorative symbols as the code units listed here. *)
UnknownError == <<"U", "n", "k", "n", "o", "w", "n", " ", "e", "r", "r", "o", "r">>
Ellipsis == <<".", ".", ".">>
DefaultProjectName == <<"P", "l", "a", "y", "w", "r", "i", "g", "h", "t", " ", "T", "e", "s", "t", "s">>
NotAvailable == <<"N", "/", "A">>
DiscordFileMark == <<"U+F8FF", "U+00FC", "U+00EC", "U+00D1", " ", "*", "*">>
DiscordFileEnd == <<"*", "*", "\n">>
DiscordBullet == <<"U+201A", "U+00C4", "U+00A2", " ">>
DiscordMoreHead == <<"_", ".", ".", ".", " ", "a", "n", "d", " ">>
DiscordMoreTail == <<" ", "m", "o", "r", "e", " ", "f", "a", "i", "l", "e", "d", " ", "t", "e", "s", "t", "s", "_">>
TelegramFailedHead == <<"\n", "<", "b", ">", "F", "a", "i", "l", "e", "d", " ", "T", "e", "s", "t", "s", ":", "<", "/", "b", ">", "\n">>
TelegramFileMark == <<"\n", "U+00F0", "U+0178", "U+201C", "U+201E", " ", "<", "b", ">">>
TelegramFileEnd == <<"<", "/", "b", ">", "\n">>
TelegramBullet == <<"U+00E2", "U+20AC", "U+00A2", " ">>
TelegramMoreHead == <<"\n", "<", "i", ">", ".", ".", ".", " ", "a", "n", "d", " ">>
TelegramMoreTail == <<" ", "m", "o", "r", "e", " ", "f", "a", "i", "l", "e", "d", " ", "t", "e", "s", "t", "s", "<", "/", "i", ">">>
TxtTotal == <<"*", "*", "T", "o", "t", "a", "l", ":", "*", "*", " ">>
TxtPassed == <<"*", "*", "P", "a", "s", "s", "e", "d", ":", "*", "*", " ">>
TxtPassedMark == <<" ", "U+201A", "U+00FA", "U+00D6">>
TxtFailed == <<"*", "*", "F", "a", "i", "l", "e", "d", ":", "*", "*", " ">>
TxtFailedMark == <<" ", "U+201A", "U+00F9", "U+00E5">>
TxtSkipped == <<"*", "*", "S", "k", "i", "p", "p", "e", "d", ":", "*", "*", " ">>
TxtSkippedMark == <<" ", "U+201A", "U+00E8", "U+2260", "U+00D4", "U+220F", "U+00E8">>
TxtFlaky == <<"*", "*", "F", "l", "a", "k", "y", ":", "*", "*", " ">>
TxtFlakyMark == <<" ", "U+F8FF", "U+00FC", "U+00EE", "U+00D1">>
TxtPassRate == <<"*", "*", "P", "a", "s", "s", " ", "R", "a", "t", "e", ":", "*", "*", " ">>
EmojiPassed == <<"U+201A", "U+00FA", "U+00D6">>
EmojiFailed == <<"U+201A", "U+00F9", "U+00E5">>
EmojiTimedOut == <<"U+201A", "U+00E8", "U+00B1", "U+00D4", "U+220F", "U+00E8">>
EmojiInterrupted == <<"U+201A", "U+00F6", "U+2020", "U+00D4", "U+220F", "U+00E8">>
EmojiUnknown == <<"U+201A", "U+00F9", "U+00EC">>
TxtTestExecution == <<" ", "T", "e", "s", "t", " ", "E", "x", "e", "c", "u", "t", "i", "o", "n", ":", " ">>
TgTitleHead == <<"<", "b", ">", "T", "e", "s", "t", " ", "E", "x", "e", "c", "u", "t", "i", "o", "n", ":", " ">>
TgTitleTail == <<"<", "/", "b", ">", "\n", "\n">>
TgProject == <<"<", "b", ">", "P", "r", "o", "j", "e", "c", "t", ":", "<", "/", "b", ">", " ">>
TgEnvironment == <<"<", "b", ">", "E", "n", "v", "i", "r", "o", "n", "m", "e", "n", "t", ":", "<", "/", "b", ">", " ">>
TgTime == <<"<", "b", ">", "T", "i", "m", "e", ":", "<", "/", "b", ">", " ">>
TgUtc == <<" ", "U", "T", "C", "\n">>
TgDuration == <<"<", "b", ">", "D", "u", "r", "a", "t", "i", "o", "n", ":", "<", "/", "b", ">", " ">>
TgResults == <<"<", "b", ">", "R", "e", "s", "u", "l", "t", "s", ":", "<", "/", "b", ">", "\n">>
TgTotal == <<"T", "o", "t", "a", "l", ":", " ">>
TgPassed == <<"P", "a", "s", "s", "e", "d", ":", " ">>
TgFailed == <<"F", "a", "i", "l", "e", "d", ":", " ">>
TgSkipped == <<"S", "k", "i", "p", "p", "e", "d", ":", " ">>
TgFlaky == <<"F", "l", "a", "k", "y", ":", " ">>
TgPassRate == <<"P", "a", "s", "s", " ", "R", "a", "t", "e", ":", " ">>
TxtPASSED == <<"P", "A", "S", "S", "E", "D">>
TxtFAILED == <<"F", "A", "I", "L", "E", "D">>
TxtTIMEDOUT == <<"T", "I", "M", "E", "D", " ", "O", "U", "T">>
TxtINTERRUPTED == <<"I", "N", "T", "E", "R", "R", "U", "P", "T", "E", "D">>
TxtUNKNOWN == <<"U", "N", "K", "N", "O", "W", "N">>
AmpEntity == <<"&", "a", "m", "p", ";">>
LtEntity == <<"&", "l", "t", ";">>
GtEntity == <<"&", "g", "t", ";">>

----------------------------------------------------------------------------
(* Bounds and program constants *)

\* number of onTestEnd events the runner delivers in one run
MaxTests == 3
\* number of onTestEnd events in a run of passing and skipped tests only
MaxRateTests == 25

\* DiscordReporter.ts:160 / part_002:142  const maxLength = 150
MaxErrorLength == 150
\* DiscordReporter.ts:301  failedTestsValue.length > 1024
FieldLimit == 1024
\* DiscordReporter.ts:302  substring(0, 1020)
FieldCut == 1020
\* DiscordReporter.ts:93 / part_002:74  options.maxFailedTestsToShow ?? 5
DefaultMaxFailedTests == 5

----------------------------------------------------------------------------
(* String helpers: what the JavaScript built-ins used by the code compute  *)

Rep(n, c) == [i \in 1..n |-> c]

DigitChar(d) ==
  CASE d = 0 -> "0" [] d = 1 -> "1" [] d = 2 -> "2" [] d = 3 -> "3"
    [] d = 4 -> "4" [] d = 5 -> "5" [] d = 6 -> "6" [] d = 7 -> "7"
    [] d = 8 -> "8" [] d = 9 -> "9"

RECURSIVE NatStr(_)
NatStr(n) ==
  IF n < 10 THEN <<DigitChar(n)>>
  ELSE NatStr(n \div 10) \o <<DigitChar(n % 10)>>

\* `${n}` of an integer n
NumStr(n) == IF n < 0 THEN <<"-">> \o NatStr(0 - n) ELSE NatStr(n)

\* s.substring(0, n) for 0 <= n
Substring0(s, n) == SubSeq(s, 1, IF n < Len(s) THEN n ELSE Len(s))

WhiteSpace == {" ", "\n", "\t", "\r"}

RECURSIVE TrimEnd(_)
TrimEnd(s) ==
  IF Len(s) > 0 /\ s[Len(s)] \in WhiteSpace
  THEN TrimEnd(SubSeq(s, 1, Len(s) - 1)) ELSE s

RECURSIVE TrimStart(_)
TrimStart(s) ==
  IF Len(s) > 0 /\ s[1] \in WhiteSpace THEN TrimStart(Tail(s)) ELSE s

\* s.trim()
Trim(s) == TrimEnd(TrimStart(s))

\* path.split(/[\\/]/).pop(): the part after the last "/" or "\"
RECURSIVE LastSegment(_)
LastSegment(path) ==
  IF \E i \in 1..Len(path) : path[i] \in {"/", "\\"}
  THEN LET i == CHOOSE k \in 1..Len(path) : path[k] \in {"/", "\\"}
       IN LastSegment(SubSeq(path, i + 1, Len(path)))
  ELSE path

\* test.location.file.split(/[\\/]/).pop() || test.location.file
FileName(file) == IF LastSegment(file) # <<>> THEN LastSegment(file) ELSE file

----------------------------------------------------------------------------
(* Inputs: the test cases and results the runner reports                   *)

Reporters == {"discord", "telegram"}
Notifier == "notifier"
\* the command line script at the end of src/unnamed/part_001
Cli == "cli"
Components == Reporters \cup {Notifier, Cli}
\* a run whose reporter list names both reporters
Both == "both"

\* an error message of n code units whose i-th unit is the digit i mod 10
Msg(n) == [i \in 1..n |-> DigitChar(i % 10)]

TitleLogin == <<"u", "s", "e", "r", " ", "c", "a", "n", " ", "l", "o", "g", " ", "i", "n">>
TitleLogout == <<"u", "s", "e", "r", " ", "c", "a", "n", " ", "l", "o", "g", " ", "o", "u", "t">>
TitleCart == <<"c", "a", "r", "t", " ", "t", "o", "t", "a", "l", " ", "u", "p", "d", "a", "t", "e", "s">>
TitleGuest == <<"g", "u", "e", "s", "t", " ", "s", "e", "e", "s", " ", "<", "L", "o", "g", "i", "n", ">", " ", "&", " ", "s", "i", "g", "n", "u", "p">>
\* a title that makes one Discord group (mark, a.ts, bullet line, blank
\* line) exactly 1024 code units long
TitleLong == Rep(1004, "x")

FileLogin == <<"t", "e", "s", "t", "s", "/", "a", "u", "t", "h", "/", "l", "o", "g", "i", "n", ".", "s", "p", "e", "c", ".", "t", "s">>
FileLoginBare == <<"l", "o", "g", "i", "n", ".", "s", "p", "e", "c", ".", "t", "s">>
FileCart == <<"C", ":", "\\", "p", "r", "o", "j", "\\", "t", "e", "s", "t", "s", "\\", "c", "a", "r", "t", ".", "s", "p", "e", "c", ".", "t", "s">>
FileA == <<"e", "2", "e", "/", "a", ".", "t", "s">>
FileQa == <<"t", "e", "s", "t", "s", "/", "q", "&", "a", "<", "v", "2", ">", ".", "s", "p", "e", "c", ".", "t", "s">>

Test(title, file) == [title |-> title, location |-> [file |-> file]]
Result(status, retry, duration, errors) ==
  [status |-> status, retry |-> retry, duration |-> duration, errors |-> errors]

\* the (test, result) pairs delivered to onTestEnd
TestEvents ==
  << [test |-> Test(TitleLogin, FileLogin),
      result |-> Result("passed", 0, 1200, <<>>)],
     [test |-> Test(TitleLogout, FileLogin),
      result |-> Result("passed", 1, 2300, <<>>)],
     [test |-> Test(TitleCart, FileCart),
      result |-> Result("skipped", 0, 0, <<>>)],
     [test |-> Test(TitleCart, FileCart),
      result |-> Result("interrupted", 1, 700, <<[message |-> Msg(9)]>>)],
     [test |-> Test(TitleLogin, FileLogin),
      result |-> Result("failed", 0, 3100, <<>>)],
     [test |-> Test(TitleCart, FileCart),
      result |-> Result("timedOut", 1, 30000, <<[stack |-> Msg(4)]>>)],
     [test |-> Test(TitleLogout, FileLoginBare),
      result |-> Result("failed", 1, 900, <<[message |-> Msg(151)]>>)],
     [test |-> Test(TitleGuest, FileQa),
      result |-> Result("failed", 0, 40,
                        <<[message |-> Msg(150)], [message |-> Msg(3)]>>)],
     [test |-> Test(TitleLong, FileA),
      result |-> Result("timedOut", 0, 60000, <<[message |-> <<>>]>>)] >>

----------------------------------------------------------------------------
(* Inputs: reporter options, process environment, runner configuration     *)

WebhookA == "https://discord.com/api/webhooks/1/abc"
WebhookB == "https://discord.com/api/webhooks/2/xyz"
TokenA == "123:AAH"
ChatA == "-1001"

NoOptions == [o \in {} |-> TRUE]

\* process.env: an unset variable and an empty one are both falsy, ""
Env(webhook, token, chat, base) ==
  [DISCORD_WEBHOOK_URL |-> webhook, TELEGRAM_BOT_TOKEN |-> token,
   TELEGRAM_CHAT_ID |-> chat, BASE_URL |-> base]

BaseUrlConduit == <<"h", "t", "t", "p", "s", ":", "/", "/", "c", "o", "n", "d", "u", "i", "t", "-", "a", "p", "i", ".", "l", "e", "a", "r", "n", "w", "e", "b", "d", "r", "i", "v", "e", "r", "i", "o", ".", "c", "o", "m">>
BaseUrlLocal == <<"h", "t", "t", "p", ":", "/", "/", "l", "o", "c", "a", "l", "h", "o", "s", "t", ":", "3", "0", "0", "0", "/", "?", "a", "=", "1", "&", "b", "=", "2">>
NameExamples == <<"e", "x", "a", "m", "p", "l", "e", "s">>
NameMarkup == <<"<", "b", ">", "x", " ", "&", " ", "y", "<", "/", "b", ">">>
DirExamples == <<".", "/", "t", "e", "s", "t", "s", "-", "e", "x", "a", "m", "p", "l", "e", "s">>

EnvFull == Env(WebhookA, TokenA, ChatA, BaseUrlLocal)
EnvNone == Env("", "", "", <<>>)

\* FullConfig.projects; an absent testDir or use.baseURL is the empty string
Project(name, testDir, baseURL) ==
  [name |-> name, testDir |-> testDir, use |-> [baseURL |-> baseURL]]

ConfigRepo == [projects |-> << Project(NameExamples, DirExamples, BaseUrlConduit) >>]
ConfigMarkup == [projects |-> << Project(<<>>, <<>>, <<>>),
                                Project(NameMarkup, DirExamples, BaseUrlConduit) >>]
ConfigEmpty == [projects |-> <<>>]

Install(reporter, options, environment, config) ==
  [reporter |-> reporter, options |-> options, env |-> environment,
   config |-> config]

\* the installations a run is started with: which component runs, the
\* options its constructor gets, the environment and the runner's config
Installations ==
  << Install("discord", NoOptions, EnvFull, ConfigRepo),
     Install("discord", NoOptions, EnvNone, ConfigEmpty),
     Install("discord", [enabled |-> TRUE], EnvNone, ConfigRepo),
     Install("discord", [enabled |-> TRUE], EnvFull, ConfigRepo),
     Install("discord", [enabled |-> TRUE, webhookUrl |-> WebhookB,
                         maxFailedTestsToShow |-> 2], EnvNone, ConfigMarkup),
     Install("discord", [enabled |-> TRUE, includeFailedTests |-> FALSE],
             EnvFull, ConfigEmpty),
     Install("discord", [enabled |-> TRUE, maxFailedTestsToShow |-> 1],
             EnvFull, ConfigRepo),
     Install("discord", [enabled |-> TRUE, maxFailedTestsToShow |-> 0],
             EnvFull, ConfigRepo),
     Install("discord", [enabled |-> TRUE, maxFailedTestsToShow |-> 0 - 1],
             EnvFull, ConfigRepo),
     Install("telegram", NoOptions, EnvFull, ConfigRepo),
     Install("telegram", NoOptions, EnvNone, ConfigEmpty),
     Install("telegram", [enabled |-> TRUE], EnvNone, ConfigRepo),
     Install("telegram", [enabled |-> TRUE],
             Env("", TokenA, "", <<>>), ConfigRepo),
     Install("telegram", [enabled |-> TRUE, botToken |-> TokenA,
                          chatId |-> ChatA],
             Env("", "", ChatA, <<>>), ConfigRepo),
     Install("telegram", [enabled |-> TRUE], EnvFull, ConfigRepo),
     Install("telegram", [enabled |-> TRUE, maxFailedTestsToShow |-> 2],
             EnvFull, ConfigMarkup),
     Install("telegram", [enabled |-> TRUE, includeFailedTests |-> FALSE],
             EnvFull, ConfigEmpty),
     Install("telegram", [enabled |-> TRUE, maxFailedTestsToShow |-> 1],
             EnvFull, ConfigRepo),
     Install("telegram", [enabled |-> TRUE, maxFailedTestsToShow |-> 0],
             EnvFull, ConfigRepo),
     Install("telegram", [enabled |-> TRUE, maxFailedTestsToShow |-> 0 - 1],
             EnvFull, ConfigRepo),
     Install(Notifier, [webhookUrl |-> WebhookB], EnvNone, ConfigEmpty),
     Install(Notifier, NoOptions, EnvFull, ConfigEmpty),
     Install(Notifier, NoOptions, EnvNone, ConfigEmpty),
     Install(Cli, NoOptions, EnvFull, ConfigEmpty),
     Install(Cli, NoOptions, EnvNone, ConfigEmpty),
     Install(Cli, NoOptions,
             [DISCORD_TASK_WEBHOOK_URL |-> WebhookB] @@ EnvNone, ConfigEmpty) >>

----------------------------------------------------------------------------
(* State *)

VARIABLES
  installed,            \* the component this process runs
  env,                  \* process.env
  fullConfig,           \* the runner's FullConfig, handed over by onBegin
  webhookUrl,           \* DiscordReporter.webhookUrl
  botToken,             \* TelegramReporter.botToken
  chatId,               \* TelegramReporter.chatId
  defaultWebhookUrl,    \* DiscordNotificationService.defaultWebhookUrl
  enabled,              \* [reporter -> this.enabled]
  includeFailedTests,   \* [reporter -> this.includeFailedTests]
  maxFailedTestsToShow, \* [reporter -> this.maxFailedTestsToShow]
  stats,                \* [reporter -> this.stats]
  failedTests,          \* [reporter -> this.failedTests]
  startTime,            \* [reporter -> this.startTime]
  projectName,          \* [reporter -> this.projectName]
  baseUrl,              \* [reporter -> this.baseUrl]
  pc,                   \* [component -> where its current call stands]
  inflight,             \* [component -> the POST requests awaiting a response]
  posts,                \* [component -> number of fetch calls made]
  log,                  \* [component -> console output, oldest first]
  outcome               \* [component -> how the async call settled]

configVars == <<installed, env, fullConfig, webhookUrl, botToken, chatId,
                defaultWebhookUrl, enabled, includeFailedTests,
                maxFailedTestsToShow>>
beginVars == <<startTime, projectName, baseUrl>>
collectorVars == <<stats, failedTests>>
deliveryVars == <<pc, inflight, posts, log, outcome>>
vars == <<configVars, beginVars, collectorVars, deliveryVars>>

----------------------------------------------------------------------------
(* Constructors *)

Has(options, key) == key \in DOMAIN options

\* a || b on strings: the first operand unless it is empty
OrElse(a, b) == IF a # "" THEN a ELSE b
OrElseSeq(a, b) == IF a # <<>> THEN a ELSE b

OptString(options, key) == IF Has(options, key) THEN options[key] ELSE ""

\* options.webhookUrl || process.env.DISCORD_WEBHOOK_URL || ""
DiscordWebhookUrl(options, e) ==
  OrElse(OrElse(OptString(options, "webhookUrl"), e.DISCORD_WEBHOOK_URL), "")

\* new DiscordNotificationService(webhookUrl):
\* webhookUrl || process.env.DISCORD_WEBHOOK_URL || ""
ServiceWebhookUrl(options, e) ==
  OrElse(OrElse(OptString(options, "webhookUrl"), e.DISCORD_WEBHOOK_URL), "")

\* new TaskNotificationHelper(): process.env.DISCORD_TASK_WEBHOOK_URL ||
\* process.env.DISCORD_WEBHOOK_URL || "", handed to the service's constructor
HelperWebhookUrl(e) ==
  OrElse(OrElse(IF "DISCORD_TASK_WEBHOOK_URL" \in DOMAIN e
                THEN e.DISCORD_TASK_WEBHOOK_URL ELSE "",
                e.DISCORD_WEBHOOK_URL), "")

\* process.env.TELEGRAM_BOT_TOKEN || ""  (options.botToken is not read)
TelegramBotToken(options, e) == OrElse(e.TELEGRAM_BOT_TOKEN, "")

\* process.env.TELEGRAM_CHAT_ID || ""  (options.chatId is not read)
TelegramChatId(options, e) == OrElse(e.TELEGRAM_CHAT_ID, "")

\* options.enabled ?? false
OptEnabled(options) ==
  IF Has(options, "enabled") THEN options.enabled ELSE FALSE

\* options.includeFailedTests ?? true
OptIncludeFailedTests(options) ==
  IF Has(options, "includeFailedTests") THEN options.includeFailedTests
  ELSE TRUE

\* options.maxFailedTestsToShow ?? 5
OptMaxFailedTests(options) ==
  IF Has(options, "maxFailedTestsToShow") THEN options.maxFailedTestsToShow
  ELSE DefaultMaxFailedTests

ZeroStats ==
  [total |-> 0, passed |-> 0, failed |-> 0, skipped |-> 0, flaky |-> 0,
   duration |-> 0]

\* a component that is not installed is not constructed: its fields keep
\* the values of an options-less construction in an empty environment; an
\* installation of both reporters holds the options of each
OptionsOf(inst, c) ==
  IF inst.reporter = c THEN inst.options
  ELSE IF inst.reporter = Both /\ c \in Reporters THEN inst.options[c]
  ELSE NoOptions
EnvOf(inst, c) ==
  IF inst.reporter = c \/ (inst.reporter = Both /\ c \in Reporters)
  THEN inst.env ELSE Env("", "", "", <<>>)

\* component c is part of this process
Runs(c) == installed = c \/ (installed = Both /\ c \in Reporters)

\* the state after the constructors of installation inst have run
InitWith(inst) ==
      /\ installed = inst.reporter
      /\ env = inst.env
      /\ fullConfig = inst.config
      /\ webhookUrl = DiscordWebhookUrl(OptionsOf(inst, "discord"),
                                        EnvOf(inst, "discord"))
      /\ botToken = TelegramBotToken(OptionsOf(inst, "telegram"),
                                     EnvOf(inst, "telegram"))
      /\ chatId = TelegramChatId(OptionsOf(inst, "telegram"),
                                 EnvOf(inst, "telegram"))
      /\ defaultWebhookUrl =
           IF inst.reporter = Cli
           THEN ServiceWebhookUrl([webhookUrl |-> HelperWebhookUrl(inst.env)],
                                  inst.env)
           ELSE ServiceWebhookUrl(OptionsOf(inst, Notifier),
                                  EnvOf(inst, Notifier))
      /\ enabled = [r \in Reporters |-> OptEnabled(OptionsOf(inst, r))]
      /\ includeFailedTests =
           [r \in Reporters |-> OptIncludeFailedTests(OptionsOf(inst, r))]
      /\ maxFailedTestsToShow =
           [r \in Reporters |-> OptMaxFailedTests(OptionsOf(inst, r))]
      /\ stats = [r \in Reporters |-> ZeroStats]
      /\ failedTests = [r \in Reporters |-> <<>>]
      /\ startTime = [r \in Reporters |-> 0]
      /\ projectName = [r \in Reporters |-> <<>>]
      /\ baseUrl = [r \in Reporters |-> <<>>]
      /\ pc = [c \in Components |-> "idle"]
      /\ inflight = [c \in Components |-> <<>>]
      /\ posts = [c \in Components |-> 0]
      /\ log = [c \in Components |-> <<>>]
      /\ outcome = [c \in Components |-> "pending"]

Init == \E i \in 1..Len(Installations) : InitWith(Installations[i])

----------------------------------------------------------------------------
(* onBegin *)

\* the moments Date.now() / new Date() is read at, in ms, with the platform's
\* renderings of that moment: toISOString() and toLocaleString("en-US",
\* {timeZone: "UTC", dateStyle: "short", timeStyle: "short"})
Moment(ms, isoText, localeText) ==
  [ms |-> ms, iso |-> isoText, locale |-> localeText]

StartMoment == Moment(1000, "1970-01-01T00:00:01.000Z",
         <<"1", "/", "1", "/", "7", "0", ",", " ", "1", "2", ":", "0", "0", " ", "A", "M">>)

\* config.projects[0]?.use?.baseURL || process.env.BASE_URL || ""
ConfigBaseUrl(config, e) ==
  OrElseSeq(OrElseSeq(IF Len(config.projects) > 0
                      THEN config.projects[1].use.baseURL ELSE <<>>,
                      e.BASE_URL), <<>>)

\* config.projects.find((p) => p.testDir)?.name || "Playwright Tests"
ConfigProjectName(config) ==
  LET hits == {i \in 1..Len(config.projects) :
                 config.projects[i].testDir # <<>>}
  IN IF hits = {} THEN DefaultProjectName
     ELSE LET first == CHOOSE i \in hits : \A j \in hits : i <= j
          IN OrElseSeq(config.projects[first].name, DefaultProjectName)

OnBegin(r) ==
  /\ Runs(r)
  /\ pc[r] = "idle"
  /\ startTime' = [startTime EXCEPT ![r] = StartMoment.ms]
  /\ baseUrl' = [baseUrl EXCEPT ![r] = ConfigBaseUrl(fullConfig, env)]
  /\ projectName' = [projectName EXCEPT ![r] = ConfigProjectName(fullConfig)]
  /\ pc' = [pc EXCEPT ![r] = "running"]
  /\ UNCHANGED <<configVars, collectorVars, inflight, posts, log, outcome>>

----------------------------------------------------------------------------
(* onTestEnd *)

\* a variant that truncates at 150 inclusive
ExtractErrorMessageInclusive(result) ==
  IF Len(result.errors) = 0 THEN UnknownError
  ELSE LET error == result.errors[1]
           message == IF Has(error, "message") /\ error.message # <<>>
                      THEN error.message ELSE <<>>
       IN IF Len(message) >= MaxErrorLength
          THEN Substring0(message, MaxErrorLength) \o Ellipsis
          ELSE message

\* extractErrorMessage(result)
ExtractErrorMessage(result) ==
  IF Len(result.errors) = 0 THEN UnknownError
  ELSE LET error == result.errors[1]
           message == IF Has(error, "message") /\ error.message # <<>>
                      THEN error.message ELSE <<>>
       IN IF Len(message) > MaxErrorLength
          THEN Substring0(message, MaxErrorLength) \o Ellipsis
          ELSE message

FailedTest(test, result) ==
  [title |-> test.title,
   file |-> FileName(test.location.file),
   error |-> ExtractErrorMessage(result)]

\* a variant that counts every retried result as flaky
CountResultAnyRetry(s, result) ==
  LET counted ==
        CASE result.status = "passed" -> [s EXCEPT !.passed = @ + 1]
          [] result.status \in {"failed", "timedOut"} ->
               [s EXCEPT !.failed = @ + 1]
          [] result.status = "skipped" -> [s EXCEPT !.skipped = @ + 1]
          [] OTHER -> s
  IN IF result.retry > 0
     THEN [counted EXCEPT !.flaky = @ + 1] ELSE counted

\* a variant whose switch has a default branch that counts a failure
CountResultDefaultFailed(s, result) ==
  LET counted ==
        CASE result.status = "passed" -> [s EXCEPT !.passed = @ + 1]
          [] result.status = "skipped" -> [s EXCEPT !.skipped = @ + 1]
          [] OTHER -> [s EXCEPT !.failed = @ + 1]
  IN IF result.status = "passed" /\ result.retry > 0
     THEN [counted EXCEPT !.flaky = @ + 1] ELSE counted

\* the switch on result.status and the flaky check that follows it
CountResult(s, result) ==
  LET counted ==
        CASE result.status = "passed" -> [s EXCEPT !.passed = @ + 1]
          [] result.status \in {"failed", "timedOut"} ->
               [s EXCEPT !.failed = @ + 1]
          [] result.status = "skipped" -> [s EXCEPT !.skipped = @ + 1]
          [] OTHER -> s
  IN IF result.status = "passed" /\ result.retry > 0
     THEN [counted EXCEPT !.flaky = @ + 1] ELSE counted

\* a variant that counts a result in total only when the switch counts it
StatsAfterCountedOnly(s, result) ==
  IF result.status \in {"passed", "failed", "timedOut", "skipped"}
  THEN CountResult([s EXCEPT !.total = @ + 1, !.duration = @ + result.duration],
                   result)
  ELSE [s EXCEPT !.duration = @ + result.duration]

StatsAfter(s, result) ==
  CountResult([s EXCEPT !.total = @ + 1, !.duration = @ + result.duration],
              result)

\* a variant that puts the newest failure first
FailedTestsAfterNewestFirst(list, test, result) ==
  IF result.status \in {"failed", "timedOut"}
  THEN <<FailedTest(test, result)>> \o list ELSE list

FailedTestsAfter(list, test, result) ==
  IF result.status \in {"failed", "timedOut"}
  THEN Append(list, FailedTest(test, result)) ELSE list

\* onTestEnd(test, result) in a run of at most `limit` tests
OnTestEndWithin(r, test, result, limit) ==
  /\ Runs(r)
  /\ pc[r] = "running"
  /\ stats[r].total < limit
  /\ stats' = [stats EXCEPT ![r] = StatsAfter(@, result)]
  /\ failedTests' = [failedTests EXCEPT ![r] = FailedTestsAfter(@, test, result)]
  /\ UNCHANGED <<configVars, beginVars, deliveryVars>>

OnTestEnd(r, test, result) == OnTestEndWithin(r, test, result, MaxTests)

----------------------------------------------------------------------------
(* Formatting helpers shared by the two reporters (each class has its own  *)
(* copy of formatDuration, getStatusText and getPassRate, identical in     *)
(* both files)                                                             *)

\* a variant that prints all the seconds after the minutes
FormatDurationAllSeconds(ms) ==
  LET seconds == ms \div 1000
      minutes == seconds \div 60
  IN IF minutes > 0
     THEN NumStr(minutes) \o <<"m", " ">> \o NumStr(seconds) \o <<"s">>
     ELSE NumStr(seconds) \o <<"s">>

\* formatDuration(ms)
FormatDuration(ms) ==
  LET seconds == ms \div 1000
      minutes == seconds \div 60
      remainingSeconds == seconds % 60
  IN IF minutes > 0
     THEN NumStr(minutes) \o <<"m", " ">> \o NumStr(remainingSeconds) \o <<"s">>
     ELSE NumStr(seconds) \o <<"s">>

\* getStatusEmoji(status)
GetStatusEmoji(status) ==
  CASE status = "passed" -> EmojiPassed
    [] status = "failed" -> EmojiFailed
    [] status = "timedout" -> EmojiTimedOut
    [] status = "interrupted" -> EmojiInterrupted
    [] OTHER -> EmojiUnknown

\* a variant that spells the timed-out status as a test status is spelled
GetStatusTextCamelCase(status) ==
  CASE status = "passed" -> TxtPASSED
    [] status = "failed" -> TxtFAILED
    [] status = "timedOut" -> TxtTIMEDOUT
    [] status = "interrupted" -> TxtINTERRUPTED
    [] OTHER -> TxtUNKNOWN

\* getStatusText(status)
GetStatusText(status) ==
  CASE status = "passed" -> TxtPASSED
    [] status = "failed" -> TxtFAILED
    [] status = "timedout" -> TxtTIMEDOUT
    [] status = "interrupted" -> TxtINTERRUPTED
    [] OTHER -> TxtUNKNOWN

\* getEmbedColor(status): 0x2ecc71, 0xe74c3c, 0xf39c12, 0x9b59b6, 0x95a5a6
GetEmbedColor(status) ==
  CASE status = "passed" -> 3066993
    [] status = "failed" -> 15158332
    [] status = "timedout" -> 15965202
    [] status = "interrupted" -> 10181046
    [] OTHER -> 9807270

\* a variant that drops the digits after the first decimal
ToFixed1Floor(passed, total) ==
  LET tenths == (1000 * passed) \div total
  IN NumStr(tenths \div 10) \o <<".">> \o NumStr(tenths % 10)

\* rate.toFixed(1) for rate = (passed / total) * 100: the tenths are rounded
\* to the nearest, then printed with one decimal
ToFixed1(passed, total) ==
  LET tenths == (2000 * passed + total) \div (2 * total)
  IN NumStr(tenths \div 10) \o <<".">> \o NumStr(tenths % 10)

\* getPassRate()
GetPassRate(s) ==
  IF s.total = 0 THEN <<"0", "%">>
  ELSE ToFixed1(s.passed, s.total) \o <<"%">>

\* a variant in which a file seen again moves to the end of the Map
MapPushMoveToEnd(map, file, title) ==
  IF \E i \in 1..Len(map) : map[i].file = file
  THEN LET i == CHOOSE k \in 1..Len(map) : map[k].file = file
       IN SelectSeq(map, LAMBDA e : e.file # file)
          \o << [file |-> file, tests |-> Append(map[i].tests, title)] >>
  ELSE Append(map, [file |-> file, tests |-> <<title>>])

\* testsByFile.set(file, [...(testsByFile.get(file) || []), title]): a Map
\* keeps a key at the place of its first insertion
MapPush(map, file, title) ==
  IF \E i \in 1..Len(map) : map[i].file = file
  THEN LET i == CHOOSE k \in 1..Len(map) : map[k].file = file
       IN [map EXCEPT ![i].tests = Append(@, title)]
  ELSE Append(map, [file |-> file, tests |-> <<title>>])

RECURSIVE GroupInto(_, _)
GroupInto(map, tests) ==
  IF tests = <<>> THEN map
  ELSE GroupInto(MapPush(map, Head(tests).file, Head(tests).title), Tail(tests))

\* the testsByFile Map built from this.failedTests, in iteration order
GroupByFile(tests) == GroupInto(<<>>, tests)

----------------------------------------------------------------------------
(* DiscordReporter.buildPayload *)

\* a variant of the inner loop that stops one line too late
RECURSIVE DiscordTestLinesOneMore(_, _, _)
DiscordTestLinesOneMore(titles, st, max) ==
  IF titles = <<>> \/ st.shown > max THEN st
  ELSE DiscordTestLinesOneMore(Tail(titles),
         [text |-> st.text \o DiscordBullet \o Head(titles) \o <<"\n">>,
          shown |-> st.shown + 1], max)

\* the inner loop over one file's titles; st = [text, shown]
RECURSIVE DiscordTestLines(_, _, _)
DiscordTestLines(titles, st, max) ==
  IF titles = <<>> \/ st.shown >= max THEN st
  ELSE DiscordTestLines(Tail(titles),
         [text |-> st.text \o DiscordBullet \o Head(titles) \o <<"\n">>,
          shown |-> st.shown + 1], max)

\* a variant of the outer loop that does not look at the cap before it
\* writes a file header
RECURSIVE DiscordFileGroupsHeaderFirst(_, _, _)
DiscordFileGroupsHeaderFirst(map, st, max) ==
  IF map = <<>> THEN st
  ELSE LET headed == [st EXCEPT !.text =
                        @ \o DiscordFileMark \o Head(map).file \o DiscordFileEnd]
           lined == DiscordTestLines(Head(map).tests, headed, max)
       IN DiscordFileGroupsHeaderFirst(Tail(map),
                                       [lined EXCEPT !.text = @ \o <<"\n">>], max)

\* the outer loop over the Map's entries
RECURSIVE DiscordFileGroups(_, _, _)
DiscordFileGroups(map, st, max) ==
  IF map = <<>> \/ st.shown >= max THEN st
  ELSE LET headed == [st EXCEPT !.text =
                        @ \o DiscordFileMark \o Head(map).file \o DiscordFileEnd]
           lined == DiscordTestLines(Head(map).tests, headed, max)
       IN DiscordFileGroups(Tail(map),
                            [lined EXCEPT !.text = @ \o <<"\n">>], max)

\* the "... and N more" note appended when the list is longer than the cap
DiscordMoreNote(text, count, max) ==
  IF count > max
  THEN text \o DiscordMoreHead \o NumStr(count - max) \o DiscordMoreTail
  ELSE text

\* failedTestsValue before the length check of line 301
DiscordGroupedText(tests, max) ==
  DiscordMoreNote(DiscordFileGroups(GroupByFile(tests),
                                    [text |-> <<>>, shown |-> 0], max).text,
                  Len(tests), max)

\* a variant that cuts at the limit itself, so that the ellipsis overshoots
DiscordCapFieldAtLimit(text) ==
  IF Len(text) > FieldLimit THEN Substring0(text, FieldLimit) \o Ellipsis
  ELSE text

\* line 301-303: the embed field limit
DiscordCapField(text) ==
  IF Len(text) > FieldLimit THEN Substring0(text, FieldCut) \o Ellipsis
  ELSE text

Field(name, value, inline) == [name |-> name, value |-> value, inline |-> inline]

\* the value of the Results field: the non-null lines joined by "\n"
DiscordResultsValue(s) ==
  TxtTotal \o NumStr(s.total) \o <<"\n">>
  \o TxtPassed \o NumStr(s.passed) \o TxtPassedMark \o <<"\n">>
  \o TxtFailed \o NumStr(s.failed) \o TxtFailedMark \o <<"\n">>
  \o TxtSkipped \o NumStr(s.skipped) \o TxtSkippedMark \o <<"\n">>
  \o (IF s.flaky > 0
      THEN TxtFlaky \o NumStr(s.flaky) \o TxtFlakyMark \o <<"\n">> ELSE <<>>)
  \o TxtPassRate \o GetPassRate(s)

\* a variant that ignores includeFailedTests
DiscordFailedFieldAlways(include, tests, max) ==
  IF Len(tests) > 0
  THEN << Field("Failed Tests",
                Trim(DiscordCapField(DiscordGroupedText(tests, max))), FALSE) >>
  ELSE <<>>

\* the fields pushed when includeFailedTests && failedTests.length > 0
DiscordFailedField(include, tests, max) ==
  IF include /\ Len(tests) > 0
  THEN << Field("Failed Tests",
                Trim(DiscordCapField(DiscordGroupedText(tests, max))), FALSE) >>
  ELSE <<>>

\* buildPayload(result) at the moment `now`; field names are kept without
\* their leading symbol
DiscordBuildPayload(r, result, now) ==
  [embeds |-> <<
     [title |-> GetStatusEmoji(result.status) \o TxtTestExecution
                  \o GetStatusText(result.status),
      color |-> GetEmbedColor(result.status),
      fields |->
        << Field("Project", projectName[r], TRUE),
           Field("Environment", OrElseSeq(baseUrl[r], NotAvailable), TRUE),
           Field("Duration", FormatDuration(now.ms - startTime[r]), TRUE),
           Field("Results", DiscordResultsValue(stats[r]), FALSE) >>
        \o DiscordFailedField(includeFailedTests[r], failedTests[r],
                              maxFailedTestsToShow[r]),
      footer |-> [text |-> "Playwright Test Reporter"],
      timestamp |-> now.iso] >>]

----------------------------------------------------------------------------
(* TelegramReporter.buildMessage *)

RECURSIVE ReplaceAll(_, _, _)
\* text.replace(/c/g, with) for a single character c: every occurrence of c
\* is replaced, left to right (a text without c is returned as it is, any
\* other is computed half by half)
ReplaceAll(text, c, with) ==
  IF \A i \in 1..Len(text) : text[i] # c THEN text
  ELSE IF Len(text) = 1 THEN with
  ELSE LET mid == Len(text) \div 2
       IN ReplaceAll(SubSeq(text, 1, mid), c, with)
          \o ReplaceAll(SubSeq(text, mid + 1, Len(text)), c, with)

\* a variant that replaces "&" last, so that it escapes the entities again
EscapeHtmlAmpLast(text) ==
  ReplaceAll(ReplaceAll(ReplaceAll(text, "<", LtEntity), ">", GtEntity),
             "&", AmpEntity)

\* escapeHtml(text)
EscapeHtml(text) ==
  ReplaceAll(ReplaceAll(ReplaceAll(text, "&", AmpEntity), "<", LtEntity),
             ">", GtEntity)

RECURSIVE TelegramTestLines(_, _, _)
TelegramTestLines(titles, st, max) ==
  IF titles = <<>> \/ st.shown >= max THEN st
  ELSE TelegramTestLines(Tail(titles),
         [text |-> st.text \o TelegramBullet \o EscapeHtml(Head(titles))
                     \o <<"\n">>,
          shown |-> st.shown + 1], max)

RECURSIVE TelegramFileGroups(_, _, _)
TelegramFileGroups(map, st, max) ==
  IF map = <<>> \/ st.shown >= max THEN st
  ELSE LET headed == [st EXCEPT !.text =
                        @ \o TelegramFileMark \o EscapeHtml(Head(map).file)
                          \o TelegramFileEnd]
       IN TelegramFileGroups(Tail(map),
                             TelegramTestLines(Head(map).tests, headed, max),
                             max)

TelegramMoreNote(text, count, max) ==
  IF count > max
  THEN text \o TelegramMoreHead \o NumStr(count - max) \o TelegramMoreTail
  ELSE text

\* what lines 207-238 append to the message
TelegramFailedSection(include, tests, max) ==
  IF include /\ Len(tests) > 0
  THEN TelegramMoreNote(
         TelegramFileGroups(GroupByFile(tests),
                            [text |-> TelegramFailedHead, shown |-> 0],
                            max).text,
         Len(tests), max)
  ELSE <<>>

\* lines 190-204: the heading and the Results block
TelegramSummary(r, result, now) ==
  TgTitleHead \o GetStatusText(result.status) \o TgTitleTail
  \o TgProject \o EscapeHtml(projectName[r]) \o <<"\n">>
  \o TgEnvironment \o EscapeHtml(baseUrl[r]) \o <<"\n">>
  \o TgTime \o EscapeHtml(now.locale) \o TgUtc
  \o TgDuration \o FormatDuration(now.ms - startTime[r]) \o <<"\n", "\n">>
  \o TgResults
  \o TgTotal \o NumStr(stats[r].total) \o <<"\n">>
  \o TgPassed \o NumStr(stats[r].passed) \o <<"\n">>
  \o TgFailed \o NumStr(stats[r].failed) \o <<"\n">>
  \o TgSkipped \o NumStr(stats[r].skipped) \o <<"\n">>
  \o (IF stats[r].flaky > 0
      THEN TgFlaky \o NumStr(stats[r].flaky) \o <<"\n">> ELSE <<>>)
  \o TgPassRate \o GetPassRate(stats[r]) \o <<"\n">>

\* buildMessage(result) at the moment `now`
TelegramBuildMessage(r, result, now) ==
  TelegramSummary(r, result, now)
  \o TelegramFailedSection(includeFailedTests[r], failedTests[r],
                           maxFailedTestsToShow[r])

----------------------------------------------------------------------------
(* onEnd and the delivery of the message *)

\* the FullResult the runner ends with, and the moment onEnd runs at
EndInputs ==
  << [result |-> [status |-> "passed"],
      now |-> Moment(46000, "1970-01-01T00:00:46.000Z",
         <<"1", "/", "1", "/", "7", "0", ",", " ", "1", "2", ":", "0", "0", " ", "A", "M">>)],
     [result |-> [status |-> "failed"],
      now |-> Moment(166000, "1970-01-01T00:02:46.000Z",
         <<"1", "/", "1", "/", "7", "0", ",", " ", "1", "2", ":", "0", "2", " ", "A", "M">>)],
     [result |-> [status |-> "timedout"],
      now |-> Moment(3726999, "1970-01-01T01:02:06.999Z",
         <<"1", "/", "1", "/", "7", "0", ",", " ", "1", ":", "0", "2", " ", "A", "M">>)],
     [result |-> [status |-> "interrupted"],
      now |-> Moment(1999, "1970-01-01T00:00:01.999Z",
         <<"1", "/", "1", "/", "7", "0", ",", " ", "1", "2", ":", "0", "0", " ", "A", "M">>)],
     [result |-> [status |-> "crashed"],
      now |-> Moment(61000, "1970-01-01T00:01:01.000Z",
         <<"1", "/", "1", "/", "7", "0", ",", " ", "1", "2", ":", "0", "1", " ", "A", "M">>)] >>

\* a variant that forgets the chat id
IsConfiguredTokenOnly(r) ==
  IF r = "discord" THEN webhookUrl # "" ELSE botToken # ""

\* isConfigured() of the two reporters
IsConfigured(r) ==
  IF r = "discord" THEN webhookUrl # "" ELSE botToken # "" /\ chatId # ""

\* the fetch call of sendDiscordMessage / sendTelegramMessage
ReporterRequest(r, result, now) ==
  IF r = "discord"
  THEN [url |-> <<webhookUrl>>, method |-> "POST",
        body |-> DiscordBuildPayload(r, result, now)]
  ELSE [url |-> <<"https://api.telegram.org/bot", botToken, "/sendMessage">>,
        method |-> "POST",
        body |-> [chat_id |-> chatId,
                  text |-> TelegramBuildMessage(r, result, now),
                  parse_mode |-> "HTML",
                  disable_web_page_preview |-> TRUE]]

\* where a reporter's send continues once the response has been handled:
\* DiscordReporter waits 200 ms inside the try block, TelegramReporter returns
AfterResponse(c) == IF c = "discord" THEN "awaitDelay" ELSE "done"

\* a variant of the script's last line that exits with 0 whatever was sent
ExitStatusZero(success) == "exit 0"

\* process.exit(success ? 0 : 1)
ExitStatus(success) == IF success THEN "exit 0" ELSE "exit 1"

\* how the call settles when its send function has finished: the reporters
\* resolve with no value, the service with the boolean it returns, and the
\* script's main() hands that boolean to process.exit
Settled(c, delivered) ==
  IF c = Notifier
  THEN (IF delivered THEN "resolved true" ELSE "resolved false")
  ELSE IF c = Cli THEN ExitStatus(delivered)
  ELSE "resolved"

\* a variant in which a reporter gives up when another reporter's delivery
\* has already failed
OnEndUnlessOtherFailed(r, result, now) ==
  /\ Runs(r)
  /\ pc[r] = "running"
  /\ IF ~enabled[r] \/ (\E q \in Reporters \ {r} : log[q] # <<>> /\ log[q][Len(log[q])] # "sent successfully")
     THEN /\ pc' = [pc EXCEPT ![r] = "done"]
          /\ outcome' = [outcome EXCEPT ![r] = "resolved"]
          /\ UNCHANGED <<inflight, posts, log>>
     ELSE IF ~IsConfigured(r)
     THEN /\ log' = [log EXCEPT ![r] = Append(@, "skipped")]
          /\ pc' = [pc EXCEPT ![r] = "done"]
          /\ outcome' = [outcome EXCEPT ![r] = "resolved"]
          /\ UNCHANGED <<inflight, posts>>
     ELSE /\ inflight' = [inflight EXCEPT ![r] =
                            Append(@, ReporterRequest(r, result, now))]
          /\ posts' = [posts EXCEPT ![r] = @ + 1]
          /\ pc' = [pc EXCEPT ![r] = "awaitFetch"]
          /\ UNCHANGED <<log, outcome>>
  /\ UNCHANGED <<configVars, beginVars, collectorVars>>

\* onEnd(result), up to its first await
OnEnd(r, result, now) ==
  /\ Runs(r)
  /\ pc[r] = "running"
  /\ IF ~enabled[r]
     THEN /\ pc' = [pc EXCEPT ![r] = "done"]
          /\ outcome' = [outcome EXCEPT ![r] = "resolved"]
          /\ UNCHANGED <<inflight, posts, log>>
     ELSE IF ~IsConfigured(r)
     THEN /\ log' = [log EXCEPT ![r] = Append(@, "skipped")]
          /\ pc' = [pc EXCEPT ![r] = "done"]
          /\ outcome' = [outcome EXCEPT ![r] = "resolved"]
          /\ UNCHANGED <<inflight, posts>>
     ELSE /\ inflight' = [inflight EXCEPT ![r] =
                            Append(@, ReporterRequest(r, result, now))]
          /\ posts' = [posts EXCEPT ![r] = @ + 1]
          /\ pc' = [pc EXCEPT ![r] = "awaitFetch"]
          /\ UNCHANGED <<log, outcome>>
  /\ UNCHANGED <<configVars, beginVars, collectorVars>>

\* fetch resolves with a response; ok is response.ok (a 2xx status)
FetchResolved(c, ok) ==
  /\ Runs(c)
  /\ pc[c] = "awaitFetch"
  /\ inflight' = [inflight EXCEPT ![c] = <<>>]
  /\ IF ok
     THEN /\ log' = [log EXCEPT ![c] = Append(@, "sent successfully")]
          /\ pc' = [pc EXCEPT ![c] = AfterResponse(c)]
          /\ outcome' = [outcome EXCEPT ![c] =
                           IF AfterResponse(c) = "done"
                           THEN Settled(c, TRUE) ELSE @]
     ELSE /\ pc' = [pc EXCEPT ![c] = "awaitBody"]
          /\ UNCHANGED <<log, outcome>>
  /\ UNCHANGED <<configVars, beginVars, collectorVars, posts>>

\* a variant that posts again after a rejected fetch
FetchRejectedRetry(c) ==
  /\ Runs(c)
  /\ pc[c] = "awaitFetch"
  /\ posts[c] < 3
  /\ posts' = [posts EXCEPT ![c] = @ + 1]
  /\ log' = [log EXCEPT ![c] = Append(@, "error")]
  /\ UNCHANGED <<configVars, beginVars, collectorVars, inflight, pc, outcome>>

\* fetch rejects (network error, invalid URL): the catch block logs it
FetchRejected(c) ==
  /\ Runs(c)
  /\ pc[c] = "awaitFetch"
  /\ inflight' = [inflight EXCEPT ![c] = <<>>]
  /\ log' = [log EXCEPT ![c] = Append(@, "error")]
  /\ pc' = [pc EXCEPT ![c] = "done"]
  /\ outcome' = [outcome EXCEPT ![c] = Settled(c, FALSE)]
  /\ UNCHANGED <<configVars, beginVars, collectorVars, posts>>

\* response.text() / response.json() of a non-2xx response resolves
BodyResolved(c) ==
  /\ Runs(c)
  /\ pc[c] = "awaitBody"
  /\ log' = [log EXCEPT ![c] = Append(@, "failed to send")]
  /\ pc' = [pc EXCEPT ![c] = AfterResponse(c)]
  /\ outcome' = [outcome EXCEPT ![c] =
                   IF AfterResponse(c) = "done" THEN Settled(c, FALSE) ELSE @]
  /\ UNCHANGED <<configVars, beginVars, collectorVars, inflight, posts>>

\* a variant whose body read is outside the try block
BodyRejectedUncaught(c) ==
  /\ Runs(c)
  /\ pc[c] = "awaitBody"
  /\ pc' = [pc EXCEPT ![c] = "done"]
  /\ outcome' = [outcome EXCEPT ![c] = "rejected"]
  /\ UNCHANGED <<configVars, beginVars, collectorVars, inflight, posts, log>>

\* response.text() / response.json() rejects: the catch block logs it
BodyRejected(c) ==
  /\ Runs(c)
  /\ pc[c] = "awaitBody"
  /\ log' = [log EXCEPT ![c] = Append(@, "error")]
  /\ pc' = [pc EXCEPT ![c] = "done"]
  /\ outcome' = [outcome EXCEPT ![c] = Settled(c, FALSE)]
  /\ UNCHANGED <<configVars, beginVars, collectorVars, inflight, posts>>

\* the 200 ms timer of DiscordReporter.sendDiscordMessage fires
DelayElapsed(r) ==
  /\ Runs(r)
  /\ r = "discord"
  /\ pc[r] = "awaitDelay"
  /\ pc' = [pc EXCEPT ![r] = "done"]
  /\ outcome' = [outcome EXCEPT ![r] = "resolved"]
  /\ UNCHANGED <<configVars, beginVars, collectorVars, inflight, posts, log>>

----------------------------------------------------------------------------
(* DiscordNotificationService (src/unnamed/part_001)                       *)

\* the NotificationOptions handed to sendNotification
NotificationInputs ==
  << [title |-> "Task: build"],
     [title |-> "Task: deploy", description |-> "Task failed",
      color |-> 15158332, fields |-> << Field("Details", "step 3", FALSE) >>,
      footer |-> "AI Assistant Task Notification",
      timestamp |-> "2025-01-01T00:00:00.000Z"],
     [title |-> "Task: report", webhookUrl |-> WebhookB] >>

\* the (content, webhookUrl) arguments handed to sendMessage
MessageInputs ==
  << [content |-> "hello", webhookUrl |-> ""],
     [content |-> "done", webhookUrl |-> WebhookB] >>

\* isConfigured(webhookUrl)
ServiceIsConfigured(url) == OrElse(url, defaultWebhookUrl) # ""

\* buildPayload(options); 0x3498db is the default colour
ServiceBuildPayload(options, now) ==
  [embeds |-> <<
     [title |-> options.title,
      description |-> OptString(options, "description"),
      color |-> IF Has(options, "color") THEN options.color ELSE 3447003,
      fields |-> IF Has(options, "fields") THEN options.fields ELSE <<>>,
      footer |-> [text |-> OrElse(OptString(options, "footer"),
                                  "Task Notification")],
      timestamp |-> OrElse(OptString(options, "timestamp"), now.iso)] >>]

\* the common shape of the two send methods, up to the first await, in the
\* call chain of component c
ServiceSend(c, url, body) ==
  /\ Runs(c)
  /\ pc[c] = "idle"
  /\ IF ~ServiceIsConfigured(url)
     THEN /\ log' = [log EXCEPT ![c] = Append(@, "skipped")]
          /\ pc' = [pc EXCEPT ![c] = "done"]
          /\ outcome' = [outcome EXCEPT ![c] = Settled(c, FALSE)]
          /\ UNCHANGED <<inflight, posts>>
     ELSE /\ inflight' = [inflight EXCEPT ![c] =
                            Append(@, [url |-> <<url>>, method |-> "POST",
                                       body |-> body])]
          /\ posts' = [posts EXCEPT ![c] = @ + 1]
          /\ pc' = [pc EXCEPT ![c] = "awaitFetch"]
          /\ UNCHANGED <<log, outcome>>
  /\ UNCHANGED <<configVars, beginVars, collectorVars>>

\* sendNotification(options)
SendNotification(options, now) ==
  ServiceSend(Notifier,
              OrElse(OptString(options, "webhookUrl"), defaultWebhookUrl),
              ServiceBuildPayload(options, now))

\* sendMessage(content, webhookUrl)
SendMessage(content, url) ==
  ServiceSend(Notifier, OrElse(url, defaultWebhookUrl),
              [content |-> content, embeds |-> <<>>])

----------------------------------------------------------------------------
(* TaskNotificationHelper and the command line script (src/unnamed/part_001) *)

\* process.argv.slice(2) of the runs of the script
CliArgvs ==
  << << <<"B", "u", "i", "l", "d">> >>,
     << <<"D", "e", "p", "l", "o", "y", " ", "t", "e", "s", "t", "s">>, <<"-", "-", "s", "t", "a", "t", "u", "s">>, <<"f", "a", "i", "l", "e", "d">>, <<"-", "-", "e", "r", "r", "o", "r">>, <<"b", "o", "o", "m">>, <<"-", "e">>, <<"t", "i", "m", "e", "o", "u", "t">> >>,
     << <<"-", "-", "s", "t", "a", "t", "u", "s">>, <<"c", "o", "m", "p", "l", "e", "t", "e", "d">> >>,
     << >>,
     << <<"-", "-", "d", "e", "t", "a", "i", "l", "s">>, <<"C", "r", "e", "a", "t", "e", "d", " ", "1", "0", " ", "t", "e", "s", "t", " ", "f", "i", "l", "e", "s">>, <<"T", "e", "s", "t", " ", "G", "e", "n", "e", "r", "a", "t", "i", "o", "n">>, <<"-", "d">>, <<"3", "7", "2", "5", "0", "0", "0">>, <<"-", "f">>, <<"a", ".", "s", "p", "e", "c", ".", "t", "s">>, <<"-", "s">>, <<"d", "o", "n", "e">>,
        <<"O", "t", "h", "e", "r">> >>,
     << <<"-", "-", "v", "e", "r", "b", "o", "s", "e">>, <<"-", "-", "d", "u", "r", "a", "t", "i", "o", "n">>, <<"a", "b", "c">> >> >>

\* parseInt(text, 10): <<n>> for the number the leading sign and digits
\* spell, <<>> for NaN
ParseInt(text) ==
  LET t == TrimStart(text)
      signed == Len(t) > 0 /\ t[1] \in {"-", "+"}
      body == IF signed THEN Tail(t) ELSE t
      digit(ch) == CHOOSE d \in 0..9 : DigitChar(d) = ch
      isDigit(ch) == \E d \in 0..9 : DigitChar(d) = ch
      n == Cardinality({k \in 1..Len(body) :
                          \A j \in 1..k : isDigit(body[j])})
      value[k \in 0..n] ==
        IF k = 0 THEN 0 ELSE 10 * value[k - 1] + digit(body[k])
  IN IF n = 0 THEN <<>>
     ELSE IF signed /\ t[1] = "-" THEN <<0 - value[n]>> ELSE <<value[n]>>

\* the loop of parseArgs over args from index i on; parsed is `result`, in
\* which an unset taskName, status or details is <<>>
RECURSIVE ParseArgsFrom(_, _, _)
ParseArgsFrom(args, i, parsed) ==
  IF i > Len(args) THEN parsed
  ELSE LET arg == args[i]
           nextArg == IF i + 1 <= Len(args) THEN args[i + 1] ELSE <<>>
       IN CASE arg \in {<<"-", "-", "s", "t", "a", "t", "u", "s">>, <<"-", "s">>} ->
                 IF nextArg # <<>>
                    /\ nextArg \in {<<"c", "o", "m", "p", "l", "e", "t", "e", "d">>, <<"f", "a", "i", "l", "e", "d">>,
                                    <<"i", "n", "_", "p", "r", "o", "g", "r", "e", "s", "s">>, <<"c", "a", "n", "c", "e", "l", "l", "e", "d">>}
                 THEN ParseArgsFrom(args, i + 2, [parsed EXCEPT !.status = nextArg])
                 ELSE ParseArgsFrom(args, i + 1, parsed)
            [] arg \in {<<"-", "-", "d", "u", "r", "a", "t", "i", "o", "n">>, <<"-", "d">>} ->
                 IF nextArg # <<>>
                 THEN ParseArgsFrom(args, i + 2,
                                    [parsed EXCEPT !.duration = ParseInt(nextArg)])
                 ELSE ParseArgsFrom(args, i + 1, parsed)
            [] arg = <<"-", "-", "d", "e", "t", "a", "i", "l", "s">> ->
                 IF nextArg # <<>>
                 THEN ParseArgsFrom(args, i + 2, [parsed EXCEPT !.details = nextArg])
                 ELSE ParseArgsFrom(args, i + 1, parsed)
            [] arg \in {<<"-", "-", "f", "i", "l", "e">>, <<"-", "f">>} ->
                 IF nextArg # <<>>
                 THEN ParseArgsFrom(args, i + 2,
                                    [parsed EXCEPT !.files = Append(@, nextArg)])
                 ELSE ParseArgsFrom(args, i + 1, parsed)
            [] arg \in {<<"-", "-", "e", "r", "r", "o", "r">>, <<"-", "e">>} ->
                 IF nextArg # <<>>
                 THEN ParseArgsFrom(args, i + 2,
                                    [parsed EXCEPT !.errors = Append(@, nextArg)])
                 ELSE ParseArgsFrom(args, i + 1, parsed)
            [] OTHER ->
                 IF parsed.taskName = <<>> /\ ~(Len(arg) >= 2 /\ arg[1] = "-" /\ arg[2] = "-")
                 THEN ParseArgsFrom(args, i + 1, [parsed EXCEPT !.taskName = arg])
                 ELSE ParseArgsFrom(args, i + 1, parsed)

\* parseArgs() up to its check of the task name
ParseArgs(args) ==
  ParseArgsFrom(args, 1, [taskName |-> <<>>, status |-> <<>>, duration |-> <<>>,
                          details |-> <<>>, files |-> <<>>, errors |-> <<>>])

\* TaskNotificationHelper.formatDuration(ms)
TaskFormatDuration(ms) ==
  LET seconds == ms \div 1000
      minutes == seconds \div 60
      hours == minutes \div 60
  IN IF hours > 0
     THEN NumStr(hours) \o <<"h", " ">> \o NumStr(minutes % 60) \o <<"m", " ">>
          \o NumStr(seconds % 60) \o <<"s">>
     ELSE IF minutes > 0
     THEN NumStr(minutes) \o <<"m", " ">> \o NumStr(seconds % 60) \o <<"s">>
     ELSE NumStr(seconds) \o <<"s">>

\* getStatusConfig(status)
GetStatusConfig(status) ==
  CASE status = <<"c", "o", "m", "p", "l", "e", "t", "e", "d">> ->
         [emoji |-> <<"U+2705">>, color |-> 3066993,
          description |-> "Task completed successfully"]
    [] status = <<"f", "a", "i", "l", "e", "d">> ->
         [emoji |-> <<"U+274C">>, color |-> 15158332,
          description |-> "Task failed"]
    [] status = <<"i", "n", "_", "p", "r", "o", "g", "r", "e", "s", "s">> ->
         [emoji |-> <<"U+D83D", "U+DD04">>, color |-> 3447003,
          description |-> "Task in progress"]
    [] status = <<"c", "a", "n", "c", "e", "l", "l", "e", "d">> ->
         [emoji |-> <<"U+26A0", "U+FE0F">>, color |-> 15965202,
          description |-> "Task cancelled"]
    [] OTHER ->
         [emoji |-> <<"U+2753">>, color |-> 9807270,
          description |-> "Task status unknown"]

\* lines.join("\n")
RECURSIVE JoinLines(_)
JoinLines(lines) ==
  IF Len(lines) = 0 THEN <<>>
  ELSE IF Len(lines) = 1 THEN lines[1]
  ELSE lines[1] \o <<"\n">> \o JoinLines(Tail(lines))

\* the NotificationOptions notifyTaskCompletion(options) hands to
\* sendNotification; field names are kept without their leading symbol, and
\* an option that is not given is <<>>
NotifyTaskOptions(options) ==
  LET statusConfig == GetStatusConfig(options.status)
      timed == options.duration # <<>> /\ options.duration[1] # 0
      files == options.filesCreated
      errors == options.errors
      \* items.slice(0, n)
      first(items, n) == SubSeq(items, 1, IF Len(items) < n THEN Len(items) ELSE n)
      fileLines == [k \in 1..Len(first(files, 10)) |->
                      <<"U+2022", " ", "U+0060">> \o files[k] \o <<"U+0060">>]
      errorLines == [k \in 1..Len(first(errors, 5)) |->
                       NumStr(k) \o <<".", " ">> \o errors[k]]
  IN [title |-> statusConfig.emoji \o <<" ", "T", "a", "s", "k", ":", " ">> \o options.taskName,
      description |-> statusConfig.description,
      color |-> statusConfig.color,
      fields |->
        (IF timed THEN << Field("Duration",
                                TaskFormatDuration(options.duration[1]), TRUE) >>
         ELSE <<>>)
        \o (IF options.details # <<>>
            THEN << Field("Details", options.details, FALSE) >> ELSE <<>>)
        \o (IF Len(files) > 0
            THEN << Field(<<"F", "i", "l", "e", "s", " ", "C", "r", "e", "a", "t", "e", "d", " ", "(">> \o NumStr(Len(files)) \o <<")">>,
                          JoinLines(fileLines)
                          \o (IF Len(files) > 10
                              THEN <<"\n", "_", ".", ".", ".", " ", "a", "n", "d", " ">> \o NumStr(Len(files) - 10)
                                   \o <<" ", "m", "o", "r", "e", " ", "f", "i", "l", "e", "s", "_">>
                              ELSE <<>>), FALSE) >>
            ELSE <<>>)
        \o (IF Len(errors) > 0
            THEN << Field(<<"E", "r", "r", "o", "r", "s", " ", "(">> \o NumStr(Len(errors)) \o <<")">>,
                          JoinLines(errorLines)
                          \o (IF Len(errors) > 5
                              THEN <<"\n", "_", ".", ".", ".", " ", "a", "n", "d", " ">> \o NumStr(Len(errors) - 5)
                                   \o <<" ", "m", "o", "r", "e", " ", "e", "r", "r", "o", "r", "s", "_">>
                              ELSE <<>>), FALSE) >>
            ELSE <<>>),
      footer |-> "AI Assistant Task Notification"]

\* main(): parseArgs, which ends the process with code 1 when no task name
\* was given, then notifyTaskCompletion up to the first await of the send
Main(argv, now) ==
  /\ installed = Cli
  /\ pc[Cli] = "idle"
  /\ LET args == ParseArgs(argv) IN
       IF args.taskName = <<>>
       THEN /\ log' = [log EXCEPT ![Cli] = Append(@, "task name required")]
            /\ pc' = [pc EXCEPT ![Cli] = "done"]
            /\ outcome' = [outcome EXCEPT ![Cli] = "exit 1"]
            /\ UNCHANGED <<configVars, beginVars, collectorVars, inflight, posts>>
       ELSE ServiceSend(Cli, defaultWebhookUrl,
              ServiceBuildPayload(
                NotifyTaskOptions(
                  [taskName |-> args.taskName,
                   status |-> IF args.status = <<>> THEN <<"c", "o", "m", "p", "l", "e", "t", "e", "d">>
                              ELSE args.status,
                   duration |-> args.duration,
                   details |-> args.details,
                   filesCreated |-> args.files,
                   errors |-> args.errors]), now))

----------------------------------------------------------------------------

Next ==
  \/ \E r \in Reporters : OnBegin(r)
  \/ \E r \in Reporters, i \in 1..Len(TestEvents) :
       OnTestEnd(r, TestEvents[i].test, TestEvents[i].result)
  \/ \E r \in Reporters, i \in 1..Len(EndInputs) :
       OnEnd(r, EndInputs[i].result, EndInputs[i].now)
  \/ \E i \in 1..Len(NotificationInputs), k \in 1..Len(EndInputs) :
       SendNotification(NotificationInputs[i], EndInputs[k].now)
  \/ \E i \in 1..Len(MessageInputs) :
       SendMessage(MessageInputs[i].content, MessageInputs[i].webhookUrl)
  \/ \E i \in 1..Len(CliArgvs), k \in 1..2 : Main(CliArgvs[i], EndInputs[k].now)
  \/ \E c \in Components, ok \in BOOLEAN : FetchResolved(c, ok)
  \/ \E c \in Components : FetchRejected(c)
  \/ \E c \in Components : BodyResolved(c)
  \/ \E c \in Components : BodyRejected(c)
  \/ \E r \in Reporters : DelayElapsed(r)

Spec == Init /\ [][Next]_vars

\* A long run of passing and skipped tests, reported to one enabled and
\* configured reporter
RateEvents == {1, 3}

RateInit ==
  \E r \in Reporters : InitWith(Install(r, [enabled |-> TRUE], EnvFull, ConfigRepo))

RateNext ==
  \/ \E r \in Reporters : OnBegin(r)
  \/ \E r \in Reporters, i \in RateEvents :
       OnTestEndWithin(r, TestEvents[i].test, TestEvents[i].result, MaxRateTests)
  \/ \E r \in Reporters : OnEnd(r, EndInputs[1].result, EndInputs[1].now)
  \/ \E c \in Components, ok \in BOOLEAN : FetchResolved(c, ok)
  \/ \E c \in Components : FetchRejected(c)
  \/ \E c \in Components : BodyResolved(c)
  \/ \E c \in Components : BodyRejected(c)
  \/ \E r \in Reporters : DelayElapsed(r)

RateSpec == RateInit /\ [][RateNext]_vars

\* Both reporters in one run (reporter: [[DiscordReporter, ...],
\* [TelegramReporter, ...]]): the runner hands every event to each reporter
MaxPairTests == 2
PairEvents == {1, 2, 4, 6, 8}

PairInstallations ==
  << Install(Both, [discord |-> [enabled |-> TRUE, maxFailedTestsToShow |-> 1],
                    telegram |-> [enabled |-> TRUE,
                                  includeFailedTests |-> FALSE]],
             EnvFull, ConfigRepo),
     Install(Both, [discord |-> [enabled |-> TRUE],
                    telegram |-> [enabled |-> TRUE]],
             Env(WebhookA, "", "", <<>>), ConfigRepo),
     Install(Both, [discord |-> [enabled |-> TRUE],
                    telegram |-> [enabled |-> TRUE]],
             Env("", TokenA, ChatA, <<>>), ConfigMarkup),
     Install(Both, [discord |-> NoOptions,
                    telegram |-> [enabled |-> TRUE, botToken |-> TokenA,
                                  chatId |-> ChatA]],
             EnvNone, ConfigRepo) >>

PairInit == \E i \in 1..Len(PairInstallations) : InitWith(PairInstallations[i])

\* the runner calls onTestEnd(test, result) of each reporter in turn; the
\* calls are synchronous, so no other code runs between them
OnTestEndAll(test, result) ==
  /\ installed = Both
  /\ \A r \in Reporters : pc[r] = "running" /\ stats[r].total < MaxPairTests
  /\ stats' = [r \in Reporters |-> StatsAfter(stats[r], result)]
  /\ failedTests' =
       [r \in Reporters |-> FailedTestsAfter(failedTests[r], test, result)]
  /\ UNCHANGED <<configVars, beginVars, deliveryVars>>

\* onEnd of one reporter, once the runner has begun the run on all of them;
\* the runner may await the onEnd calls one after the other or together
OnEndInPair(r, result, now) ==
  /\ \A q \in Reporters : pc[q] # "idle"
  /\ OnEnd(r, result, now)

PairNext ==
  \/ \E r \in Reporters : OnBegin(r)
  \/ \E i \in PairEvents :
       OnTestEndAll(TestEvents[i].test, TestEvents[i].result)
  \/ \E r \in Reporters, k \in 1..2 :
       OnEndInPair(r, EndInputs[k].result, EndInputs[k].now)
  \/ \E c \in Components, ok \in BOOLEAN : FetchResolved(c, ok)
  \/ \E c \in Components : FetchRejected(c)
  \/ \E c \in Components : BodyResolved(c)
  \/ \E c \in Components : BodyRejected(c)
  \/ \E r \in Reporters : DelayElapsed(r)

PairSpec == PairInit /\ [][PairNext]_vars

\* a pending promise (the fetch, the body read, the 200 ms timer) settles
Settle(c) ==
  \/ \E ok \in BOOLEAN : FetchResolved(c, ok)
  \/ FetchRejected(c)
  \/ BodyResolved(c)
  \/ BodyRejected(c)
  \/ DelayElapsed(c)

----------------------------------------------------------------------------
(* Properties *)

Last(s) == s[Len(s)]

\* the credentials a reporter needs are all present
HasCredentials(r) ==
  IF r = "discord" THEN webhookUrl # "" ELSE (botToken # "" /\ chatId # "")

\* C1: after every onTestEnd call total = passed + failed + skipped and the
\* failure list is as long as the failed counter, for both reporters
C1_TotalIsSum ==
  \A r \in Reporters :
    /\ stats[r].total = stats[r].passed + stats[r].failed + stats[r].skipped
    /\ Len(failedTests[r]) = stats[r].failed

\* a step in which reporter r runs onEnd up to its first await
OnEndStep(r) == pc[r] = "running" /\ pc'[r] # "running"

\* how many awaits a call may still have ahead of it
StepsLeft(p) ==
  CASE p = "idle" -> 5 [] p = "running" -> 4 [] p = "awaitFetch" -> 3
    [] p = "awaitBody" -> 2 [] p = "awaitDelay" -> 1 [] OTHER -> 0

\* C2: one onEnd performs exactly one POST when the reporter is enabled and
\* has its credentials and none otherwise (enabled defaults to false); no
\* response or exception makes it post again, and from every await onEnd
\* can only move on towards its end state, which it reaches in at most
\* three further steps
C2_SingleShot ==
  /\ [](\A r \in Reporters :
          /\ posts[r] <= 1
          /\ Len(inflight[r]) <= posts[r]
          /\ pc[r] \in {"idle", "running"} => posts[r] = 0
          /\ pc[r] \in {"awaitFetch", "awaitBody", "awaitDelay"} =>
               (posts[r] = 1 /\ ENABLED Settle(r))
          /\ pc[r] = "done" =>
               posts[r] = (IF enabled[r] /\ HasCredentials(r) THEN 1 ELSE 0))
  /\ ~OptEnabled(NoOptions)
  /\ [][\A r \in Reporters :
          /\ posts'[r] >= posts[r]
          /\ pc'[r] # pc[r] => StepsLeft(pc'[r]) < StepsLeft(pc[r])
          /\ posts'[r] # posts[r] => OnEndStep(r)]_vars

C2_Witness ==
  \E r \in Reporters :
    /\ pc[r] = "done" /\ posts[r] = 1
    /\ log[r] = <<"failed to send">>

\* C3: whatever the delivery outcome (2xx, non-2xx, network exception, a
\* failing read of the error body) the send and the enclosing call complete
\* normally: the promise never rejects and is resolved once the call is done
C3_NeverThrows ==
  \A c \in Components :
    /\ outcome[c] # "rejected"
    /\ pc[c] \in {"idle", "running", "awaitFetch", "awaitBody", "awaitDelay",
                  "done"}
    /\ (pc[c] = "done") = (outcome[c] # "pending")

C3_Witness ==
  \E r \in Reporters :
    /\ pc[r] = "done" /\ outcome[r] = "resolved"
    /\ posts[r] = 1 /\ log[r] = <<"error">>

\* C4 as stated: with empty credentials nothing is posted, nothing is thrown,
\* the service's send methods return false and a reporter's onEnd returns
\* after logging the skip
C4_Original ==
  [][ /\ \A r \in Reporters :
           (OnEndStep(r) /\ ~HasCredentials(r)) =>
             /\ posts'[r] = 0 /\ inflight'[r] = <<>>
             /\ pc'[r] = "done" /\ outcome'[r] = "resolved"
             /\ log'[r] = <<"skipped">>
      /\ \A i \in 1..Len(MessageInputs) :
           (/\ SendMessage(MessageInputs[i].content, MessageInputs[i].webhookUrl)
            /\ MessageInputs[i].webhookUrl = "" /\ defaultWebhookUrl = "") =>
             /\ posts'[Notifier] = 0 /\ inflight'[Notifier] = <<>>
             /\ outcome'[Notifier] = "resolved false"
      /\ \A i \in 1..Len(NotificationInputs), k \in 1..Len(EndInputs) :
           (/\ SendNotification(NotificationInputs[i], EndInputs[k].now)
            /\ ~Has(NotificationInputs[i], "webhookUrl")
            /\ defaultWebhookUrl = "") =>
             /\ posts'[Notifier] = 0 /\ inflight'[Notifier] = <<>>
             /\ outcome'[Notifier] = "resolved false"
    ]_vars

\* C4 (amended): as C4, but a reporter logs the skip only when it is enabled;
\* a disabled reporter returns without logging
C4_NoCredentialsNoPost ==
  [][ /\ \A r \in Reporters :
           (OnEndStep(r) /\ ~HasCredentials(r)) =>
             /\ posts'[r] = 0 /\ inflight'[r] = <<>>
             /\ pc'[r] = "done" /\ outcome'[r] = "resolved"
             /\ log'[r] = (IF enabled[r] THEN <<"skipped">> ELSE <<>>)
      /\ \A i \in 1..Len(MessageInputs) :
           (/\ SendMessage(MessageInputs[i].content, MessageInputs[i].webhookUrl)
            /\ MessageInputs[i].webhookUrl = "" /\ defaultWebhookUrl = "") =>
             /\ posts'[Notifier] = 0 /\ inflight'[Notifier] = <<>>
             /\ outcome'[Notifier] = "resolved false"
      /\ \A i \in 1..Len(NotificationInputs), k \in 1..Len(EndInputs) :
           (/\ SendNotification(NotificationInputs[i], EndInputs[k].now)
            /\ ~Has(NotificationInputs[i], "webhookUrl")
            /\ defaultWebhookUrl = "") =>
             /\ posts'[Notifier] = 0 /\ inflight'[Notifier] = <<>>
             /\ outcome'[Notifier] = "resolved false"
    ]_vars

C4_Witness ==
  /\ installed = "telegram" /\ enabled["telegram"]
  /\ botToken # "" /\ chatId = ""
  /\ pc["telegram"] = "done" /\ posts["telegram"] = 0
  /\ log["telegram"] = <<"skipped">>

----------------------------------------------------------------------------
(* Reading a message back: the lines of the failures section *)

\* the request reporter r has in flight (there is at most one)
Sent(r) == inflight[r][1]

StartsAt(t, i, pat) ==
  /\ i >= 1
  /\ i + Len(pat) - 1 <= Len(t)
  /\ \A k \in 1..Len(pat) : t[i + k - 1] = pat[k]

StartsWith(t, pat) == StartsAt(t, 1, pat)
EndsWith(t, pat) == StartsAt(t, Len(t) - Len(pat) + 1, pat)

LineStarts(t) == {i \in 1..Len(t) : i = 1 \/ t[i - 1] = "\n"}

RECURSIVE Ascending(_)
Ascending(S) ==
  IF S = {} THEN <<>>
  ELSE LET m == CHOOSE x \in S : \A y \in S : x <= y
       IN <<m>> \o Ascending(S \ {m})

\* the lines of t, without their line ends
Lines(t) ==
  LET ls == Ascending(LineStarts(t))
      lineEnd(k) == IF k < Len(ls) THEN ls[k + 1] - 2
                    ELSE IF t[Len(t)] = "\n" THEN Len(t) - 1 ELSE Len(t)
  IN [k \in 1..Len(ls) |-> SubSeq(t, ls[k], lineEnd(k))]

\* how a file header line and a test line begin and end, per reporter
FileLineHead(r) ==
  IF r = "discord" THEN DiscordFileMark
  ELSE SubSeq(TelegramFileMark, 2, Len(TelegramFileMark))
FileLineTail(r) == IF r = "discord" THEN <<"*", "*">> ELSE <<"<", "/", "b", ">">>
TestLineHead(r) == IF r = "discord" THEN DiscordBullet ELSE TelegramBullet
NoteLineHead(r) ==
  IF r = "discord" THEN DiscordMoreHead
  ELSE SubSeq(TelegramMoreHead, 2, Len(TelegramMoreHead))
NoteLine(r, n) ==
  NoteLineHead(r) \o NumStr(n)
  \o (IF r = "discord" THEN DiscordMoreTail ELSE TelegramMoreTail)

\* the failures section of the request in flight: <<>> when the message has
\* none, else <<text>>; for Discord the value of the "Failed Tests" field,
\* for Telegram the text from the "Failed Tests" heading on
Section(r) ==
  IF r = "discord"
  THEN LET fields == Sent(r).body.embeds[1].fields
           hits == {k \in 1..Len(fields) : fields[k].name = "Failed Tests"}
       IN IF hits = {} THEN <<>>
          ELSE << fields[CHOOSE k \in hits : TRUE].value >>
  ELSE LET text == Sent(r).body.text
           hits == {i \in 1..Len(text) : StartsAt(text, i, TelegramFailedHead)}
       IN IF hits = {} THEN <<>>
          ELSE << SubSeq(text, CHOOSE i \in hits : \A j \in hits : i <= j,
                         Len(text)) >>

IsFileLine(r, line) == StartsWith(line, FileLineHead(r))
IsTestLine(r, line) == StartsWith(line, TestLineHead(r))
IsNoteLine(r, line) == StartsWith(line, NoteLineHead(r))

TestLineCount(r, text) ==
  LET ls == Lines(text)
  IN Cardinality({k \in DOMAIN ls : IsTestLine(r, ls[k])})

HasNoteLine(r, text) ==
  LET ls == Lines(text) IN \E k \in DOMAIN ls : IsNoteLine(r, ls[k])

\* no line of text is a file line, a test line or a note
NoFailureLines(r, text) ==
  LET ls == Lines(text)
  IN \A k \in DOMAIN ls :
       ~IsFileLine(r, ls[k]) /\ ~IsTestLine(r, ls[k]) /\ ~IsNoteLine(r, ls[k])

\* the file and test lines of a section, in order, as (kind, text) items
Items(r, text) ==
  LET marked == SelectSeq(Lines(text),
                          LAMBDA l : IsFileLine(r, l) \/ IsTestLine(r, l))
      item(l) ==
        IF IsFileLine(r, l)
        THEN [kind |-> "file",
              text |-> SubSeq(l, Len(FileLineHead(r)) + 1,
                              Len(l) - Len(FileLineTail(r)))]
        ELSE [kind |-> "test",
              text |-> SubSeq(l, Len(TestLineHead(r)) + 1, Len(l))]
  IN [k \in 1..Len(marked) |-> item(marked[k])]

IsPrefix(a, b) == Len(a) <= Len(b) /\ a = SubSeq(b, 1, Len(a))

\* the Discord field value was cut at the field limit
DiscordWasCut(r) ==
  r = "discord"
  /\ Len(DiscordGroupedText(failedTests[r], maxFailedTestsToShow[r])) > FieldLimit

\* how a name appears in r's message: as it is for Discord, escaped for Telegram
Shown(r, name) == IF r = "discord" THEN name ELSE EscapeHtml(name)

\* the failure records of list F in grouped order: the files by their first
\* failure, and under each file its failures as recorded
RECURSIVE GroupedItems(_, _, _)
GroupedItems(r, F, firsts) ==
  IF firsts = <<>> THEN <<>>
  ELSE LET f == F[Head(firsts)].file
           own == SelectSeq(F, LAMBDA rec : rec.file = f)
       IN << [kind |-> "file", text |-> Shown(r, f)] >>
          \o [k \in 1..Len(own) |->
                [kind |-> "test", text |-> Shown(r, own[k].title)]]
          \o GroupedItems(r, F, Tail(firsts))

ExpectedItems(r) ==
  LET F == failedTests[r]
      firsts == {k \in 1..Len(F) : \A j \in 1..(k - 1) : F[j].file # F[k].file}
  IN GroupedItems(r, F, Ascending(firsts))

DropLast(s) == SubSeq(s, 1, Len(s) - 1)

----------------------------------------------------------------------------

\* C5 as stated: for any cap the section has at most maxFailedTestsToShow
\* test lines and has the "... and N more" note exactly when the number of
\* failures exceeds the cap, with N = failures - cap
C5_Original ==
  \A r \in Reporters :
    (Len(inflight[r]) > 0 /\ Section(r) # <<>>) =>
      LET text == Section(r)[1]
          count == Len(failedTests[r])
          max == maxFailedTestsToShow[r]
      IN /\ TestLineCount(r, text) <= max
         /\ (count > max) = HasNoteLine(r, text)
         /\ count > max => Last(Lines(text)) = NoteLine(r, count - max)

\* C5 (amended): the section has at most maxFailedTestsToShow test lines, and
\* none when the cap is negative; and, unless the Discord field value was cut
\* at the 1024 limit, it has the note exactly when the failures exceed the
\* cap, as its last line, with N = failures - cap
C5_CapAndNote ==
  \A r \in Reporters :
    (Len(inflight[r]) > 0 /\ Section(r) # <<>>) =>
      LET text == Section(r)[1]
          count == Len(failedTests[r])
          max == maxFailedTestsToShow[r]
      IN /\ TestLineCount(r, text) <= (IF max < 0 THEN 0 ELSE max)
         /\ ~DiscordWasCut(r) =>
              /\ (count > max) = HasNoteLine(r, text)
              /\ count > max => Last(Lines(text)) = NoteLine(r, count - max)

C5_Witness ==
  \E r \in Reporters :
    /\ Len(inflight[r]) > 0 /\ Section(r) # <<>>
    /\ maxFailedTestsToShow[r] = 2 /\ Len(failedTests[r]) = 3
    /\ failedTests[r][1].file # failedTests[r][2].file
    /\ TestLineCount(r, Section(r)[1]) = 2
    /\ Last(Lines(Section(r)[1])) = NoteLine(r, 1)

IsTrimmed(v, g) ==
  /\ IsPrefix(v, g)
  /\ \A k \in (Len(v) + 1)..Len(g) : g[k] \in WhiteSpace
  /\ Len(v) > 0 => (v[1] \notin WhiteSpace /\ Last(v) \notin WhiteSpace)

\* the grouped-failures text of r's message without its heading
GroupedPart(r) ==
  IF r = "discord" THEN Section(r)[1]
  ELSE SubSeq(Section(r)[1], Len(TelegramFailedHead) + 1, Len(Section(r)[1]))

\* C7 as stated: in both reporters the grouped-failures text of an outbound
\* message is at most 1024 long
C7_Original ==
  \A r \in Reporters :
    (Len(inflight[r]) > 0 /\ Section(r) # <<>>) =>
      Len(GroupedPart(r)) <= FieldLimit

\* C7 (amended): the value of the Discord "Failed Tests" field is at most 1024
\* long: a grouped text longer than 1024 is cut to its first 1020 code units
\* followed by "...", a text of at most 1024 is emitted with only its
\* trailing white space trimmed
C7_DiscordFieldLimit ==
  (Len(inflight["discord"]) > 0 /\ Section("discord") # <<>>) =>
    LET value == Section("discord")[1]
        g == DiscordGroupedText(failedTests["discord"],
                                maxFailedTestsToShow["discord"])
    IN /\ Len(value) <= FieldLimit
       /\ IF Len(g) > FieldLimit
          THEN value = SubSeq(g, 1, FieldCut) \o <<".", ".", ".">>
          ELSE IsTrimmed(value, g)

C7_Witness ==
  /\ Len(inflight["discord"]) > 0 /\ Section("discord") # <<>>
  /\ Len(DiscordGroupedText(failedTests["discord"],
                            maxFailedTestsToShow["discord"])) > FieldLimit
  /\ Len(Section("discord")[1]) = FieldCut + 3

\* C8: with includeFailedTests false, or with no failure recorded, the
\* message has no failures section: no "Failed Tests" field or heading, no
\* file line, no test line, no "and N more" note
C8_NoSection ==
  \A r \in Reporters :
    (Len(inflight[r]) > 0
       /\ (~includeFailedTests[r] \/ failedTests[r] = <<>>)) =>
      /\ Section(r) = <<>>
      /\ r = "discord" =>
           \A k \in DOMAIN Sent(r).body.embeds[1].fields :
             NoFailureLines(r, Sent(r).body.embeds[1].fields[k].value)
      /\ r = "telegram" =>
           NoFailureLines(r, Sent(r).body.text)

C8_Witness ==
  \E r \in Reporters :
    /\ Len(inflight[r]) > 0
    /\ ~includeFailedTests[r] /\ Len(failedTests[r]) = 2
    /\ Section(r) = <<>>

\* a step in which reporter r records the event (test, result) as a failure
RecordsFailure(r, ev) ==
  /\ OnTestEnd(r, ev.test, ev.result)
  /\ ev.result.status \in {"failed", "timedOut"}

\* C9: the error stored with a failure is the first error's message, cut to
\* its first 150 code units followed by "..." when it is longer than 150 and
\* unchanged otherwise; a stored error is never longer than 153
C9_ErrorTruncated ==
  [][\A r \in Reporters, i \in 1..Len(TestEvents) :
       LET ev == TestEvents[i] IN
         (/\ RecordsFailure(r, ev)
          /\ Len(ev.result.errors) > 0
          /\ "message" \in DOMAIN ev.result.errors[1]) =>
           LET m == ev.result.errors[1].message
               e == Last(failedTests'[r]).error
           IN /\ Len(failedTests'[r]) = Len(failedTests[r]) + 1
              /\ Len(m) > 150 => e = SubSeq(m, 1, 150) \o <<".", ".", ".">>
              /\ Len(m) <= 150 => e = m
              /\ Len(e) <= 153]_vars

C9_Witness ==
  \E r \in Reporters :
    /\ Len(failedTests[r]) = 2
    /\ Len(failedTests[r][1].error) = 153
    /\ EndsWith(failedTests[r][1].error, <<".", ".", ".">>)
    /\ Len(failedTests[r][2].error) = 150

\* C10 as stated: a failed or timed-out test without an error message (no
\* errors at all, or a first error with no or an empty message) is recorded
\* with the error text "Unknown error"
C10_UnknownError ==
  [][\A r \in Reporters, i \in 1..Len(TestEvents) :
       LET ev == TestEvents[i] IN
         (/\ RecordsFailure(r, ev)
          /\ \/ Len(ev.result.errors) = 0
             \/ "message" \notin DOMAIN ev.result.errors[1]
             \/ ev.result.errors[1].message = <<>>) =>
           /\ Len(failedTests'[r]) = Len(failedTests[r]) + 1
           /\ Last(failedTests'[r]).error = UnknownError]_vars

----------------------------------------------------------------------------

\* the rest of the first line of text that begins with head
LineAfter(text, head) ==
  LET ls == Lines(text)
      hits == {k \in DOMAIN ls : StartsWith(ls[k], head)}
      k == CHOOSE i \in hits : \A j \in hits : i <= j
  IN SubSeq(ls[k], Len(head) + 1, Len(ls[k]))

\* esc is raw with each "&", "<", ">" replaced by its entity and every other
\* code unit kept, position by position
EscapedAs(raw, esc) ==
  LET amps == {j \in 1..Len(raw) : raw[j] = "&"}
      angles == {j \in 1..Len(raw) : raw[j] \in {"<", ">"}}
      at(i) == i + 4 * Cardinality({j \in amps : j < i})
                 + 3 * Cardinality({j \in angles : j < i})
      image(c) == CASE c = "&" -> <<"&", "a", "m", "p", ";">>
                    [] c = "<" -> <<"&", "l", "t", ";">>
                    [] c = ">" -> <<"&", "g", "t", ";">>
                    [] OTHER -> <<c>>
  IN /\ Len(esc) = at(Len(raw) + 1) - 1
     /\ \A i \in 1..Len(raw) : StartsAt(esc, at(i), image(raw[i]))

\* no "<" or ">" in t, and every "&" of t begins one of the three entities
NoRawMarkup(t) ==
  \A i \in 1..Len(t) :
    /\ t[i] \notin {"<", ">"}
    /\ t[i] = "&" => \/ StartsAt(t, i, <<"&", "a", "m", "p", ";">>)
                     \/ StartsAt(t, i, <<"&", "l", "t", ";">>)
                     \/ StartsAt(t, i, <<"&", "g", "t", ";">>)

MarkupEscaped == <<"&", "l", "t", ";", "b", "&", "g", "t", ";", "x", " ", "&", "a", "m", "p", ";", " ", "y", "&", "l", "t", ";", "/", "b", "&", "g", "t", ";">>

\* C11: in a Telegram message the project name, the environment URL, every
\* file name and every test title appear with exactly "&", "<", ">" replaced
\* by "&amp;", "&lt;", "&gt;", once (the "&" of an entity is not escaped
\* again), so no raw "<" or ">" of the data is in the text; "<b>x & y</b>"
\* appears as "&lt;b&gt;x &amp; y&lt;/b&gt;"
C11_Escaped ==
  Len(inflight["telegram"]) > 0 =>
    LET text == Sent("telegram").body.text
        project == LineAfter(text, TgProject)
        environment == LineAfter(text, TgEnvironment)
        items == IF Section("telegram") = <<>> THEN <<>>
                 ELSE Items("telegram", Section("telegram")[1])
        F == failedTests["telegram"]
    IN /\ EscapedAs(projectName["telegram"], project) /\ NoRawMarkup(project)
       /\ EscapedAs(baseUrl["telegram"], environment) /\ NoRawMarkup(environment)
       /\ projectName["telegram"] = NameMarkup => project = MarkupEscaped
       /\ \A k \in 1..Len(items) :
            /\ NoRawMarkup(items[k].text)
            /\ \E n \in 1..Len(F) :
                 EscapedAs(IF items[k].kind = "file" THEN F[n].file
                           ELSE F[n].title, items[k].text)

C11_Witness ==
  /\ Len(inflight["telegram"]) > 0 /\ Section("telegram") # <<>>
  /\ projectName["telegram"] = NameMarkup
  /\ LineAfter(Sent("telegram").body.text, TgProject) = MarkupEscaped
  /\ \E k \in 1..Len(baseUrl["telegram"]) : baseUrl["telegram"][k] = "&"
  /\ \E n \in 1..Len(failedTests["telegram"]) :
       /\ failedTests["telegram"][n].title = TitleGuest
       /\ failedTests["telegram"][n].file = FileName(FileQa)
  /\ Len(Items("telegram", Section("telegram")[1])) = 2

----------------------------------------------------------------------------

\* the value of the field called name in the Discord payload in flight
DiscordFieldValue(name) ==
  LET fields == Sent("discord").body.embeds[1].fields
  IN fields[CHOOSE k \in DOMAIN fields : fields[k].name = name].value

\* the pass rate as written in r's message in flight
SentPassRate(r) ==
  IF r = "discord" THEN LineAfter(DiscordFieldValue("Results"), TxtPassRate)
  ELSE LineAfter(Sent(r).body.text, TgPassRate)

\* text is w.d% for the number of tenths 10w + d nearest to 1000 * passed / total
IsRateOf(text, passed, total) ==
  \E w \in 0..100, d \in 0..9 :
    /\ text = NumStr(w) \o <<".", DigitChar(d)>> \o <<"%">>
    /\ 10 * w + d <= 1000
    /\ 2 * ((10 * w + d) * total - 1000 * passed) <= total
    /\ 2 * (1000 * passed - (10 * w + d) * total) <= total

\* C12: the pass rate of a message is "0%" when total is 0 and otherwise
\* passed / total * 100 with one decimal and "%" (23 of 25: "92.0%", 22 of
\* 25: "88.0%"), always from 0.0% to 100.0%
C12_PassRate ==
  \A r \in Reporters :
    /\ 0 <= stats[r].passed /\ stats[r].passed <= stats[r].total
    /\ Len(inflight[r]) > 0 =>
         LET s == stats[r]
             text == SentPassRate(r)
         IN /\ s.total = 0 => text = <<"0", "%">>
            /\ s.total > 0 => IsRateOf(text, s.passed, s.total)
            /\ (s.total = 25 /\ s.passed = 23) => text = <<"9", "2", ".", "0", "%">>
            /\ (s.total = 25 /\ s.passed = 22) => text = <<"8", "8", ".", "0", "%">>

C12_Witness ==
  /\ Len(inflight["telegram"]) > 0
  /\ stats["telegram"].total = 25 /\ stats["telegram"].passed = 23
  /\ SentPassRate("telegram") = <<"9", "2", ".", "0", "%">>

----------------------------------------------------------------------------

\* the duration as written in request req of reporter r
DurationIn(r, req) ==
  IF r = "discord"
  THEN LET fields == req.body.embeds[1].fields
       IN fields[CHOOSE k \in DOMAIN fields : fields[k].name = "Duration"].value
  ELSE LineAfter(req.body.text, TgDuration)

\* text renders ms: "Xm Ys" with X > 0 whole minutes and Y in 0..59, or "Ys"
IsDurationOf(text, ms) ==
  LET q == CHOOSE n \in 0..(ms \div 1000 + 1) :
             1000 * n <= ms /\ ms < 1000 * (n + 1)
  IN \E X \in 0..q :
       /\ 60 * X <= q /\ q <= 60 * X + 59
       /\ LET Y == q - 60 * X
          IN /\ X > 0 => text = NumStr(X) \o <<"m", " ">> \o NumStr(Y) \o <<"s">>
             /\ X = 0 => text = NumStr(Y) \o <<"s">>

\* C13: the duration a reporter writes for ms milliseconds is "Xm Ys" when
\* the whole minutes X = floor(floor(ms/1000)/60) are more than 0, with
\* Y = floor(ms/1000) mod 60 in 0..59, and "Ys" with Y = floor(ms/1000)
\* otherwise; 45000 ms gives "45s", 165000 ms gives "2m 45s"
C13_Duration ==
  [][\A r \in Reporters, k \in 1..Len(EndInputs) :
       (posts'[r] # posts[r] /\ OnEnd(r, EndInputs[k].result, EndInputs[k].now)) =>
         LET ms == EndInputs[k].now.ms - startTime[r]
             text == DurationIn(r, inflight'[r][1])
         IN /\ IsDurationOf(text, ms)
            /\ ms = 45000 => text = <<"4", "5", "s">>
            /\ ms = 165000 => text = <<"2", "m", " ", "4", "5", "s">>]_vars

C13_Witness ==
  /\ Len(inflight["discord"]) > 0
  /\ DurationIn("discord", Sent("discord")) = <<"2", "m", " ", "4", "5", "s">>

\* the label and the colour of a run status, as the table gives them
StatusRow(status) ==
  CASE status = "passed" -> [label |-> <<"P", "A", "S", "S", "E", "D">>, color |-> 3066993]
    [] status = "failed" -> [label |-> <<"F", "A", "I", "L", "E", "D">>, color |-> 15158332]
    [] status = "timedout" ->
         [label |-> <<"T", "I", "M", "E", "D", " ", "O", "U", "T">>, color |-> 15965202]
    [] status = "interrupted" ->
         [label |-> <<"I", "N", "T", "E", "R", "R", "U", "P", "T", "E", "D">>,
          color |-> 10181046]
    [] OTHER -> [label |-> <<"U", "N", "K", "N", "O", "W", "N">>, color |-> 9807270]

\* C14: the run status decides label and colour by one table: passed ->
\* PASSED / 0x2ecc71, failed -> FAILED / 0xe74c3c, timedout -> TIMED OUT /
\* 0xf39c12, interrupted -> INTERRUPTED / 0x9b59b6, any other -> UNKNOWN /
\* 0x95a5a6; the Discord embed carries label and colour of the same row, the
\* Telegram heading the label
C14_StatusTable ==
  [][\A r \in Reporters, k \in 1..Len(EndInputs) :
       (posts'[r] # posts[r] /\ OnEnd(r, EndInputs[k].result, EndInputs[k].now)) =>
         LET row == StatusRow(EndInputs[k].result.status)
             req == inflight'[r][1]
         IN IF r = "discord"
            THEN /\ EndsWith(req.body.embeds[1].title,
                             <<" ", "T", "e", "s", "t", " ", "E", "x", "e", "c", "u", "t", "i", "o", "n", ":", " ">>
                             \o row.label)
                 /\ req.body.embeds[1].color = row.color
            ELSE StartsWith(req.body.text,
                            <<"<", "b", ">", "T", "e", "s", "t", " ", "E", "x", "e", "c", "u", "t", "i", "o", "n", ":", " ">>
                            \o row.label \o <<"<", "/", "b", ">", "\n">>)]_vars

C14_Witness ==
  /\ Len(inflight["discord"]) > 0
  /\ Sent("discord").body.embeds[1].color = 9807270
  /\ EndsWith(Sent("discord").body.embeds[1].title, <<":", " ", "U", "N", "K", "N", "O", "W", "N">>)

----------------------------------------------------------------------------

\* C15: the script posts at most one notification and exits with code 0
\* exactly when that POST was answered 2xx; a non-2xx answer, a network
\* exception, a failing body read, a missing webhook URL and a missing task
\* name all end it with code 1
C15_ExitCode ==
  /\ [](/\ posts[Cli] <= 1
        /\ pc[Cli] = "done" => outcome[Cli] \in {"exit 0", "exit 1"}
        /\ outcome[Cli] = "exit 0" => posts[Cli] = 1
        /\ pc[Cli] \in {"awaitFetch", "awaitBody"} => ENABLED Settle(Cli))
  /\ [][/\ (pc[Cli] # "done" /\ pc'[Cli] = "done") =>
             outcome'[Cli] = (IF FetchResolved(Cli, TRUE) THEN "exit 0"
                              ELSE "exit 1")
        /\ \A i \in 1..Len(CliArgvs), k \in 1..2 :
             (/\ Main(CliArgvs[i], EndInputs[k].now)
              /\ (ParseArgs(CliArgvs[i]).taskName = <<>> \/ defaultWebhookUrl = "")) =>
               /\ posts'[Cli] = 0 /\ inflight'[Cli] = <<>>
               /\ outcome'[Cli] = "exit 1"]_vars

C15_Witness ==
  /\ pc[Cli] = "done" /\ outcome[Cli] = "exit 0"
  /\ posts[Cli] = 1 /\ log[Cli] = <<"sent successfully">>

\* C16 as stated: a 2xx response is a success; every non-2xx response is a
\* failure whose response body is logged, never followed by the success
\* line; the service's send returns true exactly for a 2xx response and
\* false for every non-2xx response and every exception
C16_NonOkBodyLogged ==
  [][\A c \in Components :
       /\ FetchResolved(c, TRUE) =>
            /\ Last(log'[c]) = "sent successfully"
            /\ c = Notifier => outcome'[c] = "resolved true"
       /\ (pc[c] = "awaitBody" /\ pc'[c] # "awaitBody") =>
            /\ Last(log'[c]) = "failed to send"
            /\ \A k \in DOMAIN log'[c] : log'[c][k] # "sent successfully"
            /\ c = Notifier => outcome'[c] = "resolved false"
       /\ FetchRejected(c) =>
            /\ Last(log'[c]) = "error"
            /\ c = Notifier => outcome'[c] = "resolved false"
       /\ (c = Notifier /\ outcome[c] = "pending" /\ outcome'[c] = "resolved true") =>
            FetchResolved(c, TRUE)]_vars

\* what holds of C16: as above, but after a non-2xx response the log ends
\* with the failure line and the body only if the body could be read, and
\* with the exception of the read otherwise
C16_NonOkIsFailure ==
  [][\A c \in Components :
       /\ FetchResolved(c, TRUE) =>
            /\ Last(log'[c]) = "sent successfully"
            /\ c = Notifier => outcome'[c] = "resolved true"
       /\ (pc[c] = "awaitBody" /\ pc'[c] # "awaitBody") =>
            /\ Last(log'[c]) = (IF BodyResolved(c) THEN "failed to send" ELSE "error")
            /\ \A k \in DOMAIN log'[c] : log'[c][k] # "sent successfully"
            /\ c = Notifier => outcome'[c] = "resolved false"
       /\ FetchRejected(c) =>
            /\ Last(log'[c]) = "error"
            /\ c = Notifier => outcome'[c] = "resolved false"
       /\ (c = Notifier /\ outcome[c] = "pending" /\ outcome'[c] = "resolved true") =>
            FetchResolved(c, TRUE)]_vars

----------------------------------------------------------------------------

\* C17: flaky counts a subset of passed: stats.flaky grows by one exactly in
\* the onTestEnd calls whose result has status passed and retry > 0, no
\* other step changes it, and always 0 <= stats.flaky <= stats.passed
C17_FlakySubset ==
  /\ [](\A r \in Reporters :
          0 <= stats[r].flaky /\ stats[r].flaky <= stats[r].passed)
  /\ [][\A r \in Reporters :
          /\ stats'[r].flaky \in {stats[r].flaky, stats[r].flaky + 1}
          /\ \A i \in 1..Len(TestEvents) :
               OnTestEnd(r, TestEvents[i].test, TestEvents[i].result) =>
                 stats'[r].flaky =
                   (IF /\ TestEvents[i].result.status = "passed"
                       /\ TestEvents[i].result.retry > 0
                    THEN stats[r].flaky + 1 ELSE stats[r].flaky)
          /\ stats'[r].flaky # stats[r].flaky =>
               /\ pc[r] = "running" /\ pc'[r] = "running"
               /\ stats'[r].passed = stats[r].passed + 1]_vars

C17_Witness ==
  \E r \in Reporters :
    /\ stats[r].total = 3 /\ stats[r].passed = 2 /\ stats[r].flaky = 1
    /\ stats[r].failed = 1 /\ failedTests[r][1].title = TitleCart

\* C18: every onTestEnd call adds 1 to stats.total and result.duration to
\* stats.duration whatever the status, and touches nothing but the counters
\* and the failure list: no request is built or sent by it, and a reporter's
\* POST count and request change only in the step in which onEnd starts
C18_OnTestEndFrame ==
  [][\A r \in Reporters :
       /\ \A i \in 1..Len(TestEvents) :
            OnTestEnd(r, TestEvents[i].test, TestEvents[i].result) =>
              /\ stats'[r].total = stats[r].total + 1
              /\ stats'[r].duration =
                   stats[r].duration + TestEvents[i].result.duration
       /\ (stats'[r] # stats[r] \/ failedTests'[r] # failedTests[r]) =>
            /\ stats'[r].total = stats[r].total + 1
            /\ \E i \in 1..Len(TestEvents) :
                 stats'[r].duration =
                   stats[r].duration + TestEvents[i].result.duration
            /\ UNCHANGED <<configVars, beginVars, deliveryVars>>
       /\ posts'[r] # posts[r] =>
            OnEndStep(r) /\ posts'[r] = posts[r] + 1
       /\ (inflight'[r] # inflight[r] /\ inflight'[r] # <<>>) => OnEndStep(r)
       /\ pc[r] \in {"idle", "running"} => posts[r] = 0 /\ inflight[r] = <<>>]_vars

C18_Witness ==
  \E r \in Reporters :
    /\ pc[r] = "running" /\ posts[r] = 0 /\ inflight[r] = <<>>
    /\ stats[r].total = 3 /\ stats[r].passed = 1 /\ stats[r].failed = 1
    /\ stats[r].skipped = 0 /\ stats[r].duration = 1200 + 700 + 3100

\* C20: the failure list only grows at its end (the list before a step is a
\* prefix of the list after it, so the list of any earlier state is a prefix
\* of the list of any later one), no counter decreases, and only onTestEnd
\* changes the counters and the list: onBegin, onEnd and the delivery that
\* onEnd awaits leave them as they are
C20_GrowOnly ==
  [][\A r \in Reporters :
       /\ IsPrefix(failedTests[r], failedTests'[r])
       /\ Len(failedTests'[r]) <= Len(failedTests[r]) + 1
       /\ \A f \in DOMAIN ZeroStats : stats'[r][f] >= stats[r][f]
       /\ (pc[r] # "running" \/ pc'[r] # "running") =>
            /\ stats'[r] = stats[r]
            /\ failedTests'[r] = failedTests[r]]_vars

C20_Witness ==
  \E r \in Reporters :
    /\ pc[r] = "done" /\ posts[r] = 1
    /\ Len(failedTests[r]) = 3
    /\ failedTests[r][1].title = TitleGuest
    /\ failedTests[r][2].title = TitleLogin
    /\ failedTests[r][3].title = TitleCart

----------------------------------------------------------------------------

\* the delivery state of one component
DeliveryOf(c) == <<pc[c], inflight[c], posts[c], log[c], outcome[c]>>

\* C19: with both reporters in one run, each reporter that is enabled and
\* has its credentials performs exactly one POST, carrying the message built
\* from its own counters and options, whatever the order of the two onEnd
\* calls and whatever the other reporter's delivery does (success, non-2xx,
\* exception, unconfigured); a step of one reporter's finalization changes
\* nothing of the other reporter, and every await of an onEnd can settle,
\* each step taking the call nearer to its end
C19_IndependentFinalization ==
  /\ [](\A r \in Reporters :
          /\ posts[r] <= 1
          /\ pc[r] \notin {"idle", "running"} =>
               posts[r] = (IF enabled[r] /\ IsConfigured(r) THEN 1 ELSE 0)
          /\ inflight[r] # <<>> =>
               /\ Len(inflight[r]) = 1
               /\ \E k \in 1..2 :
                    inflight[r][1] =
                      ReporterRequest(r, EndInputs[k].result, EndInputs[k].now)
          /\ pc[r] \in {"awaitFetch", "awaitBody", "awaitDelay"} =>
               ENABLED Settle(r)
          /\ pc[r] = "done" =>
               /\ outcome[r] = "resolved" /\ inflight[r] = <<>>)
  /\ [][\A r \in Reporters :
          DeliveryOf(r)' # DeliveryOf(r) =>
            /\ StepsLeft(pc'[r]) < StepsLeft(pc[r])
            /\ \A q \in Reporters \ {r} :
                 /\ DeliveryOf(q)' = DeliveryOf(q)
                 /\ stats'[q] = stats[q] /\ failedTests'[q] = failedTests[q]]_vars

C19_Witness ==
  /\ installed = Both
  /\ pc["discord"] = "done" /\ posts["discord"] = 1
  /\ log["discord"] = <<"error">>
  /\ pc["telegram"] = "done" /\ posts["telegram"] = 1
  /\ log["telegram"] = <<"sent successfully">>
  /\ stats["telegram"].total = 2 /\ stats["discord"].failed = 1

----------------------------------------------------------------------------

\* the statuses the switch of onTestEnd has a case for
CountedStatuses == {"passed", "failed", "timedOut", "skipped"}

\* C21: an onTestEnd call whose result status is none of passed, failed,
\* timedOut and skipped (the runner's "interrupted") adds 1 to stats.total
\* and result.duration to stats.duration and leaves passed, failed, skipped,
\* flaky and the failure list as they were, retried or not
C21_UncountedStatus ==
  [][\A r \in Reporters, i \in 1..Len(TestEvents) :
       (/\ TestEvents[i].result.status \notin CountedStatuses
        /\ OnTestEnd(r, TestEvents[i].test, TestEvents[i].result)) =>
         /\ stats'[r] = [stats[r] EXCEPT
                           !.total = @ + 1,
                           !.duration = @ + TestEvents[i].result.duration]
         /\ failedTests'[r] = failedTests[r]]_vars

C21_Witness ==
  \E r \in Reporters :
    /\ stats[r] = [ZeroStats EXCEPT !.total = 2, !.duration = 1400]
    /\ failedTests[r] = <<>>
    /\ pc[r] = "running"

----------------------------------------------------------------------------

\* the test items among items, in order
TestItems(items) == SelectSeq(items, LAMBDA it : it.kind = "test")

\* how many failures a section shows of `count` recorded under a cap >= 0
ShownCount(max, count) == IF max < count THEN max ELSE count

\* the test lines of items are the first min(cap, count) failures in grouped
\* order, each header is that of the file of the lines after it, and every
\* header has a test line right after it
ShowsFirstFailures(r, items) ==
  LET n == ShownCount(maxFailedTestsToShow[r], Len(failedTests[r]))
  IN /\ TestItems(items) = SubSeq(TestItems(ExpectedItems(r)), 1, n)
     /\ IsPrefix(items, ExpectedItems(r))
     /\ \A k \in 1..Len(items) :
          items[k].kind = "file" =>
            k < Len(items) /\ items[k + 1].kind = "test"

\* C22 as stated: whenever the section is emitted with a cap >= 0, its test
\* lines are exactly the first min(cap, count) failures in grouped order and
\* a file header appears only with a test line after it
C22_Original ==
  \A r \in Reporters :
    (/\ Len(inflight[r]) > 0 /\ Section(r) # <<>>
     /\ maxFailedTestsToShow[r] >= 0) =>
      ShowsFirstFailures(r, Items(r, Section(r)[1]))

\* C22: whenever the section is emitted with a cap >= 0 and the Discord
\* field value was not cut at 1024 characters, its test lines are exactly
\* the first min(cap, count) failures in grouped order and a file header
\* appears only with a test line after it (none at all under cap 0); in a
\* cut Discord field this holds of the lines before the one the cut falls in,
\* with at most min(cap, count) test lines
C22_ShownLines ==
  \A r \in Reporters :
    (/\ Len(inflight[r]) > 0 /\ Section(r) # <<>>
     /\ maxFailedTestsToShow[r] >= 0) =>
      LET items == Items(r, Section(r)[1])
          n == ShownCount(maxFailedTestsToShow[r], Len(failedTests[r]))
      IN IF DiscordWasCut(r)
         THEN /\ Len(TestItems(items)) <= n
              /\ Len(items) > 0 =>
                   /\ IsPrefix(DropLast(items), ExpectedItems(r))
                   /\ \A k \in 1..(Len(items) - 2) :
                        items[k].kind = "file" => items[k + 1].kind = "test"
         ELSE /\ ShowsFirstFailures(r, items)
              /\ maxFailedTestsToShow[r] = 0 => items = <<>>

C22_Witness ==
  \E r \in Reporters :
    /\ Len(inflight[r]) > 0 /\ Section(r) # <<>>
    /\ maxFailedTestsToShow[r] = 1 /\ Len(failedTests[r]) = 3
    /\ failedTests[r][1].file # failedTests[r][2].file
    /\ failedTests[r][1].file # failedTests[r][3].file
    /\ Items(r, Section(r)[1]) =
         << [kind |-> "file", text |-> Shown(r, failedTests[r][1].file)],
            [kind |-> "test", text |-> Shown(r, failedTests[r][1].title)] >>

====
